---- MODULE Spec2Model ----
(***************************************************************************)
(* nanobanana: prompt expansion, output-file allocation and the sequential  *)
(* generate / story batch loop of lib.ts (src/unnamed/part_001), its        *)
(* credential, output-directory and file lookups, and main of cli.ts.       *)
(*                                                                          *)
(* Strings are sequences of one-character strings, so that lower-casing,    *)
(* stripping, whitespace collapsing, truncation and the decimal rendering   *)
(* of the collision counter are computed character by character.            *)
(***************************************************************************)
EXTENDS Integers, Sequences, FiniteSets, TLC

VARIABLES
  \* genFilename applied to one prompt (specification SpecSlug)
  sPrompt, sIdx, sDir, sName, sPc,
  \* repeated genFilename / saveImage on one directory (specification SpecAlloc)
  aDir, aPrompt, aIdx, aName, aPc, aSeq, aSame,
  \* the prompt expansion of generate, line by line (specification SpecExpand)
  eBase, eStyles, eVariations, eHasCount, eCount, ePrompts, eVaried, eReplicated, ePc,
  \* one generate or story invocation (specification Spec)
  bReq, bKey, bDirExists, bDir, bPrompts, bI, bPc, bFiles, bLog, bCalls, bInFlight,
  bName, bOutcome, bJ, bLaunchFailed,
  \* one run of the command line (specification SpecCli)
  cArgs, cEnv, cFiles, cPc, cCall, cPrompts, cErrors, cExit, cApiCalls,
  \* one call of getApiKey (specification SpecKey)
  kEnv, kKey, kPc,
  \* two processes naming and writing a file in one directory (specification SpecRace)
  rDir, rPrompt, rIdx, rName, rC, rPc, rClock, rFreeAt, rWroteAt,
  \* ensureOutputDir and the output directory of one operation (specification SpecDir)
  dFs, dOpt, dOut, dPc, dCalls, dBase, dRet, dThrew, dSaved, dWritten, dCreated,
  \* parseArgs, argument by argument (specification SpecArgs)
  vArgs, vI, vAcc, vPc,
  \* one prompt of generate: the scan of the response's parts (specification SpecParts)
  pRes, pDir0, pDir, pK, pPc, pB64, pName, pFiles, pWrites,
  \* one call of edit or restore (specification SpecEdit)
  xFile, xMode, xOpt, xFs0, xFs, xFp, xOut, xName, xRet, xPc,
  \* generate operations running concurrently in one process (specification SpecConc)
  nPrompts, nDir, nI, nPc, nName, nFiles, nSaved

slugVars  == <<sPrompt, sIdx, sDir, sName, sPc>>
allocVars == <<aDir, aPrompt, aIdx, aName, aPc, aSeq, aSame>>
expandVars == <<eBase, eStyles, eVariations, eHasCount, eCount, ePrompts,
                eVaried, eReplicated, ePc>>
batchVars == <<bReq, bKey, bDirExists, bDir, bPrompts, bI, bPc, bFiles, bLog, bCalls,
               bInFlight, bName, bOutcome, bJ, bLaunchFailed>>
cliVars == <<cArgs, cEnv, cFiles, cPc, cCall, cPrompts, cErrors, cExit, cApiCalls>>
keyVars == <<kEnv, kKey, kPc>>
raceVars == <<rDir, rPrompt, rIdx, rName, rC, rPc, rClock, rFreeAt, rWroteAt>>
dirVars == <<dFs, dOpt, dOut, dPc, dCalls, dBase, dRet, dThrew, dSaved, dWritten,
         dCreated>>
argsVars == <<vArgs, vI, vAcc, vPc>>
partsVars == <<pRes, pDir0, pDir, pK, pPc, pB64, pName, pFiles, pWrites>>
editVars == <<xFile, xMode, xOpt, xFs0, xFs, xFp, xOut, xName, xRet, xPc>>
concVars == <<nPrompts, nDir, nI, nPc, nName, nFiles, nSaved>>
vars == <<slugVars, allocVars, expandVars, batchVars, cliVars, keyVars, raceVars, dirVars, argsVars, partsVars, editVars, concVars>>

\* the variables a specification leaves alone
notSlug == <<allocVars, expandVars, batchVars, cliVars, keyVars, raceVars, dirVars, argsVars, partsVars, editVars, concVars>>
notAlloc == <<slugVars, expandVars, batchVars, cliVars, keyVars, raceVars, dirVars, argsVars, partsVars, editVars, concVars>>
notExpand == <<slugVars, allocVars, batchVars, cliVars, keyVars, raceVars, dirVars, argsVars, partsVars, editVars, concVars>>
notBatch == <<slugVars, allocVars, expandVars, cliVars, keyVars, raceVars, dirVars, argsVars, partsVars, editVars, concVars>>
notCli == <<slugVars, allocVars, expandVars, batchVars, keyVars, raceVars, dirVars, argsVars, partsVars, editVars, concVars>>
notKey == <<slugVars, allocVars, expandVars, batchVars, cliVars, raceVars, dirVars, argsVars, partsVars, editVars, concVars>>
notRace == <<slugVars, allocVars, expandVars, batchVars, cliVars, keyVars, dirVars, argsVars, partsVars, editVars, concVars>>
notDir == <<slugVars, allocVars, expandVars, batchVars, cliVars, keyVars, raceVars, argsVars, partsVars, editVars, concVars>>
notArgs == <<slugVars, allocVars, expandVars, batchVars, cliVars, keyVars, raceVars, dirVars, partsVars, editVars, concVars>>
notParts == <<slugVars, allocVars, expandVars, batchVars, cliVars, keyVars, raceVars, dirVars, argsVars, editVars, concVars>>
notEdit == <<slugVars, allocVars, expandVars, batchVars, cliVars, keyVars, raceVars, dirVars, argsVars, partsVars, concVars>>
notConc == <<slugVars, allocVars, expandVars, batchVars, cliVars, keyVars, raceVars, dirVars, argsVars, partsVars, editVars>>

----------------------------------------------------------------------------
(* Bounds *)

MaxLen == 3        \* longest short prompt enumerated exhaustively
MaxOrd == 2        \* largest ordinal (idx) passed to genFilename
MaxFiles == 4      \* files written into one directory by SpecAlloc
MaxStyles == 2     \* longest --styles list
MaxVariations == 2 \* longest --variations list
MaxCount == 3      \* largest --count
MaxBatch == 5      \* largest count of a generate batch
MaxSteps == 2      \* largest explicit --steps of a story
MaxParts == 2      \* most parts in one response
MaxArgs == 2       \* most arguments after the first on a command line
MaxEnsure == 2     \* direct calls of ensureOutputDir before an operation
MaxSaves == 2      \* files one operation tries to write
MaxArgv == 3       \* longest argument list given to parseArgs
MaxScan == 2       \* most parts in a candidate of a response
MaxPresent == 3    \* most files on disk when edit is called
MaxItems == 2      \* most prompts of one of the concurrent generate operations

----------------------------------------------------------------------------
(* Characters and strings *)

Min(a, b) == IF a < b THEN a ELSE b
Max(a, b) == IF a > b THEN a ELSE b

\* characters prompts are drawn from: a lower-case letter, an upper-case
\* letter, a digit, a blank, a punctuation mark
Alphabet == {"a", "B", "1", " ", "!"}

LowerAlnum == {"a","b","c","d","e","f","g","h","i","j","k","l","m","n","o",
               "p","q","r","s","t","u","v","w","x","y","z",
               "0","1","2","3","4","5","6","7","8","9"}
Whitespace == {" ", "\t", "\n"}

\* String.prototype.toLowerCase on one character
ToLowerChar(ch) ==
  CASE ch = "A" -> "a"
    [] ch = "B" -> "b"
    [] ch = "C" -> "c"
    [] OTHER -> ch

ToLowerCase(s) == [i \in 1..Len(s) |-> ToLowerChar(s[i])]

\* .replace(/[^a-z0-9\s]/g, "")
IsKept(ch) == ch \in LowerAlnum \cup Whitespace
StripSpecial(s) == SelectSeq(s, IsKept)

\* .replace(/\s+/g, "_"): every maximal run of whitespace becomes one "_"
RECURSIVE CollapseWs(_)
CollapseWs(s) ==
  IF s = <<>> THEN <<>>
  ELSE IF Head(s) \in Whitespace
       THEN IF Len(s) > 1 /\ s[2] \in Whitespace
            THEN CollapseWs(Tail(s))
            ELSE <<"_">> \o CollapseWs(Tail(s))
       ELSE <<Head(s)>> \o CollapseWs(Tail(s))

SLUG_MAX == 32
\* .slice(0, 32)
Slice(s, n) == SubSeq(s, 1, Min(Len(s), n))

IMAGE == <<"i","m","a","g","e">>
PNG == <<".","p","n","g">>

\* (mutant) the prompt is cut to 32 characters before it is sanitized
SanitizeCutFirst(prompt) == CollapseWs(StripSpecial(ToLowerCase(Slice(prompt, SLUG_MAX))))

\* the sanitized prompt, before the || "image" fallback
Sanitize(prompt) == Slice(CollapseWs(StripSpecial(ToLowerCase(prompt))), SLUG_MAX)

\* (mutant) the || "image" fallback is missing
GenBaseNoFallback(prompt) == Sanitize(prompt)

\* let base = ... || "image"
GenBase(prompt) ==
  LET b == Sanitize(prompt) IN IF b = <<>> THEN IMAGE ELSE b

DigitChar == <<"0","1","2","3","4","5","6","7","8","9">>
\* template-literal rendering of a positive integer
RECURSIVE NumToStr(_)
NumToStr(n) ==
  IF n < 10 THEN <<DigitChar[n + 1]>>
  ELSE NumToStr(n \div 10) \o <<DigitChar[(n % 10) + 1]>>

\* `${base}.png` and `${base}_${c}.png`
PlainName(base) == base \o PNG
NumberedName(base, c) == base \o <<"_">> \o NumToStr(c) \o PNG

\* (mutant) the counter starts at the ordinal even when the ordinal is 0
StartCounterAtIdx(idx) == idx

\* let c = idx > 0 ? idx : 1
StartCounter(idx) == IF idx > 0 THEN idx ELSE 1

\* (mutant) the collision is resolved by one rename: "if" in place of "while"
GenLoopOnce(base, name, c, dir) ==
  IF name \in dir THEN NumberedName(base, c) ELSE name

\* while (fs.existsSync(path.join(out, name))) name = `${base}_${c++}.png`
RECURSIVE GenLoop(_, _, _, _)
GenLoop(base, name, c, dir) ==
  IF name \in dir THEN GenLoop(base, NumberedName(base, c), c + 1, dir)
  ELSE name

GenFilename(prompt, idx, dir) ==
  GenLoop(GenBase(prompt), PlainName(GenBase(prompt)), StartCounter(idx), dir)

----------------------------------------------------------------------------
(* Prompt expansion: generate, lines 109-123 *)

COMMA == <<","," ">>
STYLE_SUFFIX == <<" ","s","t","y","l","e">>
LIGHTING == <<"l","i","g","h","t","i","n","g">>
MOOD == <<"m","o","o","d">>
DRAMATIC_LIGHTING == <<","," ","d","r","a","m","a","t","i","c"," ","l","i","g","h","t","i","n","g">>
SOFT_LIGHTING == <<","," ","s","o","f","t"," ","l","i","g","h","t","i","n","g">>
CHEERFUL_MOOD == <<","," ","c","h","e","e","r","f","u","l"," ","m","o","o","d">>
DRAMATIC_MOOD == <<","," ","d","r","a","m","a","t","i","c"," ","m","o","o","d">>

\* opts.styles.map(s => `${prompt}, ${s} style`)
StylePrompt(prompt, style) == prompt \o COMMA \o style \o STYLE_SUFFIX

\* let prompts = [prompt]; if (opts.styles?.length) prompts = opts.styles.map(...)
ExpandStyles(prompt, styles) ==
  IF Len(styles) > 0
  THEN [i \in 1..Len(styles) |-> StylePrompt(prompt, styles[i])]
  ELSE <<prompt>>

\* the pushes made for one base prompt b and one variation tag v
VariationOutputs(b, v) ==
  IF v = LIGHTING THEN <<b \o DRAMATIC_LIGHTING, b \o SOFT_LIGHTING>>
  ELSE IF v = MOOD THEN <<b \o CHEERFUL_MOOD, b \o DRAMATIC_MOOD>>
  ELSE <<b \o COMMA \o v>>

\* for (const v of opts.variations) ...
RECURSIVE ForVariations(_, _)
ForVariations(b, vs) ==
  IF vs = <<>> THEN <<>>
  ELSE VariationOutputs(b, Head(vs)) \o ForVariations(b, Tail(vs))

\* for (const b of base) for (const v of opts.variations) ...
RECURSIVE ForBases(_, _)
ForBases(bs, vs) ==
  IF bs = <<>> THEN <<>>
  ELSE ForVariations(Head(bs), vs) \o ForBases(Tail(bs), vs)

\* the loops nested the other way round: for each tag, every base prompt
RECURSIVE ForBasesOfTag(_, _)
ForBasesOfTag(bs, v) ==
  IF bs = <<>> THEN <<>>
  ELSE VariationOutputs(Head(bs), v) \o ForBasesOfTag(Tail(bs), v)

RECURSIVE ForVariationsOuter(_, _)
ForVariationsOuter(bs, vs) ==
  IF vs = <<>> THEN <<>>
  ELSE ForBasesOfTag(bs, Head(vs)) \o ForVariationsOuter(bs, Tail(vs))

\* (mutant) the variation loop is the outer loop
ExpandVariationsOuter(prompts, variations) ==
  IF Len(variations) > 0 THEN ForVariationsOuter(prompts, variations) ELSE prompts

\* if (opts.variations?.length) { const base = prompts; prompts = []; ... }
ExpandVariations(prompts, variations) ==
  IF Len(variations) > 0 THEN ForBases(prompts, variations) ELSE prompts

\* truthiness of opts.count: undefined and 0 are falsy
CountTruthy(hasCount, count) == hasCount /\ count # 0

\* (mutant) the single expanded prompt is replicated, suffix included
ApplyReplicateExpanded(prompts, prompt, hasCount, count) ==
  IF CountTruthy(hasCount, count) /\ count > 1 /\ Len(prompts) = 1
  THEN [i \in 1..count |-> prompts[1]]
  ELSE prompts

\* if (opts.count && opts.count > 1 && prompts.length === 1)
\*   prompts = Array(opts.count).fill(prompt)
ApplyReplicate(prompts, prompt, hasCount, count) ==
  IF CountTruthy(hasCount, count) /\ count > 1 /\ Len(prompts) = 1
  THEN [i \in 1..count |-> prompt]
  ELSE prompts

\* Array.prototype.slice(0, end): a negative end counts from the end
SliceTo(list, end) ==
  LET e == IF end < 0 THEN Max(Len(list) + end, 0) ELSE Min(end, Len(list))
  IN SubSeq(list, 1, e)

\* if (opts.count && prompts.length > opts.count) prompts = prompts.slice(0, opts.count)
ApplyTruncate(prompts, hasCount, count) ==
  IF CountTruthy(hasCount, count) /\ Len(prompts) > count
  THEN SliceTo(prompts, count)
  ELSE prompts

\* the list generate iterates over
ExpandPrompts(prompt, styles, variations, hasCount, count) ==
  ApplyTruncate(
    ApplyReplicate(ExpandVariations(ExpandStyles(prompt, styles), variations),
                   prompt, hasCount, count),
    hasCount, count)

----------------------------------------------------------------------------
(* story: the prompt and the file-name prompt of each step, lines 198-217 *)

DEFAULT_STEPS == 4
STORY == <<"s","t","o","r","y">>
PROCESS == <<"p","r","o","c","e","s","s">>
TUTORIAL == <<"t","u","t","o","r","i","a","l">>
TIMELINE == <<"t","i","m","e","l","i","n","e">>
CONSISTENT == <<"c","o","n","s","i","s","t","e","n","t">>
SMOOTH == <<"s","m","o","o","t","h">>
STEP_INFIX == <<","," ","s","t","e","p"," ">>
OF_INFIX == <<" ","o","f"," ">>
INSTRUCTIONAL == <<","," ","i","n","s","t","r","u","c","t","i","o","n","a","l"," ","i","l","l","u","s","t","r","a","t","i","o","n">>
EDUCATIONAL == <<","," ","e","d","u","c","a","t","i","o","n","a","l"," ","d","i","a","g","r","a","m">>
CHRONOLOGICAL == <<","," ","c","h","r","o","n","o","l","o","g","i","c","a","l">>
TRANSITION_SUFFIX == <<" ","t","r","a","n","s","i","t","i","o","n">>
STEP_TAG == <<"_","s","t","e","p">>
UNDERSCORE == <<"_">>

\* x || dflt on strings: the empty string (and undefined) is falsy
OrDefault(x, dflt) == IF x = <<>> THEN dflt ELSE x

\* const steps = opts.steps || 4 (0, NaN and undefined are falsy)
StorySteps(steps) == IF steps = 0 THEN DEFAULT_STEPS ELSE steps

\* template-literal rendering of an integer
IntToStr(n) == IF n < 0 THEN <<"-">> \o NumToStr(-n) ELSE NumToStr(n)

\* the prompt of step i (0-based), lines 205-210
StoryPrompt(prompt, i, steps, type, style, transition) ==
  LET head == prompt \o STEP_INFIX \o IntToStr(i + 1) \o OF_INFIX \o IntToStr(steps)
      typed == IF type = PROCESS THEN head \o INSTRUCTIONAL
               ELSE IF type = TUTORIAL THEN head \o EDUCATIONAL
               ELSE IF type = TIMELINE THEN head \o CHRONOLOGICAL
               ELSE head \o COMMA \o OrDefault(style, CONSISTENT) \o STYLE_SUFFIX
  IN IF i > 0 THEN typed \o COMMA \o OrDefault(transition, SMOOTH) \o TRANSITION_SUFFIX
     ELSE typed

\* the prompts of the steps i = 0 .. steps-1, in order
StoryPrompts(prompt, steps, type, style, transition) ==
  [k \in 1..StorySteps(steps) |->
     StoryPrompt(prompt, k - 1, StorySteps(steps), OrDefault(type, STORY), style, transition)]

\* `${type}_step${i + 1}_${prompt}`, line 217
StoryFilePrompt(prompt, i, type) ==
  OrDefault(type, STORY) \o STEP_TAG \o IntToStr(i + 1) \o UNDERSCORE \o prompt

----------------------------------------------------------------------------
(* The response of generateContent: the parts of the first candidate *)

PartKinds == {"inlineData", "base64Text", "plainText", "none"}

\* part.inlineData?.data || (part.text && isBase64(part.text) ? part.text : null)
HasImage(kind) == kind = "inlineData" \/ kind = "base64Text"

\* index of the first part that carries image data, 0 when there is none
FirstImage(parts) ==
  IF \E k \in 1..Len(parts) : HasImage(parts[k])
  THEN CHOOSE k \in 1..Len(parts) :
         HasImage(parts[k]) /\ \A j \in 1..(k - 1) : ~HasImage(parts[j])
  ELSE 0

----------------------------------------------------------------------------
(* The command line: parseArgs and the values main reads from the flags *)

\* s.startsWith(p), s.slice(n)
StartsWith(s, p) == Len(s) >= Len(p) /\ SubSeq(s, 1, Len(p)) = p
Drop(s, n) == SubSeq(s, n + 1, Len(s))

\* s.split(sep) for a one-character separator
RECURSIVE Split(_, _)
Split(s, sep) ==
  IF \A i \in 1..Len(s) : s[i] # sep THEN <<s>>
  ELSE LET i == CHOOSE k \in 1..Len(s) : s[k] = sep /\ \A j \in 1..(k - 1) : s[j] # sep
       IN <<SubSeq(s, 1, i - 1)>> \o Split(Drop(s, i), sep)

\* list.join(sep)
RECURSIVE Join(_, _)
Join(list, sep) ==
  IF list = <<>> THEN <<>>
  ELSE IF Len(list) = 1 THEN list[1]
  ELSE list[1] \o sep \o Join(Tail(list), sep)

SPACE == <<" ">>
EQUALS == "="
DASH == "-"
TRUE_STR == <<"t","r","u","e">>

\* flags[k] = v: the later value of a key replaces the earlier one
SetFlag(flags, k, v) == [x \in DOMAIN flags \cup {k} |-> IF x = k THEN v ELSE flags[x]]

\* flags.k: undefined when the key is absent, shown as the empty string (no
\* stored value is empty, line 83)
Flag(flags, k) == IF k \in DOMAIN flags THEN flags[k] ELSE <<>>

\* one iteration of the loop of parseArgs, lines 81-88
ParseArg(acc, a) ==
  IF StartsWith(a, <<DASH, DASH>>)
  THEN LET kv == Split(Drop(a, 2), EQUALS)
           v == IF Len(kv) >= 2 THEN kv[2] ELSE <<>>
       IN [acc EXCEPT !.flags = SetFlag(acc.flags, kv[1], OrDefault(v, TRUE_STR))]
  ELSE IF StartsWith(a, <<DASH>>) /\ Len(a) = 2
  THEN [acc EXCEPT !.flags = SetFlag(acc.flags, <<a[2]>>, TRUE_STR)]
  ELSE [acc EXCEPT !.pos = Append(acc.pos, a)]

\* parseArgs, lines 77-91
RECURSIVE ParseFrom(_, _)
ParseFrom(acc, args) ==
  IF args = <<>> THEN acc ELSE ParseFrom(ParseArg(acc, Head(args)), Tail(args))
\* const pos = []; const flags = {}
NoArgs == [pos |-> <<>>, flags |-> <<>>]
ParseArgs(args) == ParseFrom(NoArgs, args)

\* parseInt(s) without a radix: leading whitespace, a sign, then the longest
\* run of decimal digits; NaN when there is none, or hexadecimal digits after
\* a 0x prefix
HexLower == DigitChar \o <<"a","b","c","d","e","f">>
HexUpper == DigitChar \o <<"A","B","C","D","E","F">>
IndexIn(ch, chars) ==
  IF \E d \in 1..Len(chars) : chars[d] = ch
  THEN CHOOSE d \in 1..Len(chars) : chars[d] = ch
  ELSE 0
DigitValue(ch) == Max(IndexIn(ch, HexLower), IndexIn(ch, HexUpper)) - 1
IsDigitOf(ch, radix) == DigitValue(ch) >= 0 /\ DigitValue(ch) < radix
LeadingDigits(s, radix) ==
  CHOOSE n \in 0..Len(s) :
    /\ \A i \in 1..n : IsDigitOf(s[i], radix)
    /\ n = Len(s) \/ ~IsDigitOf(s[n + 1], radix)
RECURSIVE DigitsValue(_, _)
DigitsValue(ds, radix) ==
  IF ds = <<>> THEN 0
  ELSE radix * DigitsValue(SubSeq(ds, 1, Len(ds) - 1), radix) + DigitValue(ds[Len(ds)])
RECURSIVE TrimStart(_)
TrimStart(s) == IF s # <<>> /\ Head(s) \in Whitespace THEN TrimStart(Tail(s)) ELSE s
ParseInt(s) ==
  LET t == TrimStart(s)
      signed == t # <<>> /\ Head(t) \in {"-", "+"}
      u == IF signed THEN Tail(t) ELSE t
      hex == Len(u) >= 2 /\ u[1] = "0" /\ u[2] \in {"x", "X"}
      radix == IF hex THEN Len(HexLower) ELSE Len(DigitChar)
      w == IF hex THEN Drop(u, 2) ELSE u
      ds == SubSeq(w, 1, LeadingDigits(w, radix))
      magnitude == DigitsValue(ds, radix)
  IN [nan |-> ds = <<>>,
      value |-> IF signed /\ Head(t) = "-" THEN 0 - magnitude ELSE magnitude]

----------------------------------------------------------------------------
(* getApiKey and findFile *)

\* process.env.X of a variable that is not set
Undefined == <<"undefined">>
Truthy(v) == v # Undefined /\ v # <<>>
\* a || b
OrElse(a, b) == IF Truthy(a) THEN a ELSE b

\* the environment with no credential variable set
NoEnv ==
  [NANOBANANA_GEMINI_API_KEY |-> Undefined, GEMINI_API_KEY |-> Undefined,
   GOOGLE_API_KEY |-> Undefined]

\* (mutant) the documented variables are read before the override
GetApiKeyOverrideLast(env) ==
  OrElse(OrElse(env.GEMINI_API_KEY, env.GOOGLE_API_KEY), env.NANOBANANA_GEMINI_API_KEY)

\* const key = process.env.NANOBANANA_GEMINI_API_KEY || process.env.GEMINI_API_KEY
\*             || process.env.GOOGLE_API_KEY
GetApiKey(env) ==
  OrElse(OrElse(env.NANOBANANA_GEMINI_API_KEY, env.GEMINI_API_KEY), env.GOOGLE_API_KEY)

\* (mutant) a missing key is not noticed before the client is used
KeyNeverThrows(env) == FALSE

\* if (!key) throw new Error("No API key found. ...")
KeyThrows(env) == ~Truthy(GetApiKey(env))

\* the places findFile looks in, in order; a file is a place and a name
SearchPaths == <<"cwd", "output", "downloads", "desktop">>
NoFile == [at |-> "null", name |-> <<>>]
IsAbsolute(filename) == filename # <<>> /\ Head(filename) = "/"

\* findFile, lines 33-46
FindFile(filename, files) ==
  IF IsAbsolute(filename) /\ [at |-> "root", name |-> filename] \in files
  THEN [at |-> "root", name |-> filename]
  ELSE IF \E k \in 1..Len(SearchPaths) : [at |-> SearchPaths[k], name |-> filename] \in files
  THEN LET k == CHOOSE k \in 1..Len(SearchPaths) :
                  /\ [at |-> SearchPaths[k], name |-> filename] \in files
                  /\ \A j \in 1..(k - 1) : [at |-> SearchPaths[j], name |-> filename] \notin files
       IN [at |-> SearchPaths[k], name |-> filename]
  ELSE NoFile

\* what main awaits: the function and its arguments; an option that is not
\* passed is empty (count: hasCount is false, also for NaN, which is falsy)
NoCall ==
  [fn |-> "none", prompt |-> <<>>, file |-> <<>>, mode |-> <<>>, hasCount |-> FALSE,
   count |-> 0, styles |-> <<>>, variations |-> <<>>, steps |-> 0, type |-> <<>>,
   style |-> <<>>, transition |-> <<>>, preview |-> FALSE]

----------------------------------------------------------------------------
(* Inputs *)

\* all strings over Alphabet of length 0..n
RECURSIVE StringsUpTo(_)
StringsUpTo(n) ==
  IF n = 0 THEN {<<>>}
  ELSE LET S == StringsUpTo(n - 1)
       IN S \cup {Append(s, ch) : s \in {t \in S : Len(t) = n - 1}, ch \in Alphabet}

\* a unit repeated cyclically up to length n
Repeat(u, n) == [i \in 1..n |-> u[((i - 1) % Len(u)) + 1]]

LongLens == {SLUG_MAX, SLUG_MAX + 1, 2 * SLUG_MAX + 3}
LongUnits ==
  {<<"a">>, <<"!">>, <<"B", "!">>, <<"a", " ">>, <<"1", " ", " ">>, <<"!", " ">>}
LongPrompts == {Repeat(u, n) : u \in LongUnits, n \in LongLens}

Prompts == StringsUpTo(MaxLen) \cup LongPrompts

\* files a directory may hold before genFilename is called
DirUniverse ==
  {PlainName(IMAGE), NumberedName(IMAGE, 1), PlainName(<<"a">>),
   NumberedName(<<"a">>, 1), PlainName(<<"_">>)}

----------------------------------------------------------------------------
(* Each specification leaves the variables of the others at rest *)

InitAllocIdle ==
  /\ aDir = {}
  /\ aPrompt = <<>>
  /\ aIdx = 0
  /\ aName = <<>>
  /\ aPc = "off"
  /\ aSeq = <<>>
  /\ aSame = TRUE

InitSlugIdle ==
  /\ sPrompt = <<>>
  /\ sIdx = 0
  /\ sDir = {}
  /\ sName = <<>>
  /\ sPc = "off"

InitExpandIdle ==
  /\ eBase = <<>>
  /\ eStyles = <<>>
  /\ eVariations = <<>>
  /\ eHasCount = FALSE
  /\ eCount = 0
  /\ ePrompts = <<>>
  /\ eVaried = <<>>
  /\ eReplicated = <<>>
  /\ ePc = "off"

InitBatchIdle ==
  /\ bReq = [kind |-> "none"]
  /\ bKey = FALSE
  /\ bDirExists = FALSE
  /\ bDir = <<>>
  /\ bPrompts = <<>>
  /\ bI = 0
  /\ bPc = "off"
  /\ bFiles = <<>>
  /\ bLog = <<>>
  /\ bCalls = <<>>
  /\ bInFlight = 0
  /\ bName = <<>>
  /\ bOutcome = <<>>
  /\ bJ = 0
  /\ bLaunchFailed = FALSE

InitCliIdle ==
  /\ cArgs = <<>>
  /\ cEnv = NoEnv
  /\ cFiles = {}
  /\ cPc = "off"
  /\ cCall = NoCall
  /\ cPrompts = <<>>
  /\ cErrors = 0
  /\ cExit = 0
  /\ cApiCalls = 0

InitKeyIdle ==
  /\ kEnv = NoEnv
  /\ kKey = Undefined
  /\ kPc = "off"

InitRaceIdle ==
  /\ rDir = <<>>
  /\ rPrompt = <<>>
  /\ rIdx = <<>>
  /\ rName = <<>>
  /\ rC = <<>>
  /\ rPc = <<>>
  /\ rClock = 0
  /\ rFreeAt = <<>>
  /\ rWroteAt = <<>>

InitDirIdle ==
  /\ dFs = <<>>
  /\ dOpt = <<>>
  /\ dOut = <<>>
  /\ dPc = "off"
  /\ dCalls = 0
  /\ dBase = <<>>
  /\ dRet = <<>>
  /\ dThrew = FALSE
  /\ dSaved = 0
  /\ dWritten = {}
  /\ dCreated = {}

InitArgsIdle ==
  /\ vArgs = <<>>
  /\ vI = 0
  /\ vAcc = NoArgs
  /\ vPc = "off"

InitPartsIdle ==
  /\ pRes = <<>>
  /\ pDir0 = <<>>
  /\ pDir = <<>>
  /\ pK = 0
  /\ pPc = "off"
  /\ pB64 = <<>>
  /\ pName = <<>>
  /\ pFiles = <<>>
  /\ pWrites = 0

InitEditIdle ==
  /\ xFile = <<>>
  /\ xMode = Undefined
  /\ xOpt = "none"
  /\ xFs0 = <<>>
  /\ xFs = <<>>
  /\ xFp = NoFile
  /\ xOut = "none"
  /\ xName = <<>>
  /\ xRet = <<>>
  /\ xPc = "off"

InitConcIdle ==
  /\ nPrompts = <<>>
  /\ nDir = <<>>
  /\ nI = <<>>
  /\ nPc = <<>>
  /\ nName = <<>>
  /\ nFiles = <<>>
  /\ nSaved = {}

----------------------------------------------------------------------------
(* SpecSlug: genFilename applied once to an arbitrary prompt *)

InitSlug ==
  /\ sPrompt \in Prompts
  /\ sIdx \in 0..MaxOrd
  /\ sDir \in SUBSET DirUniverse
  /\ sName = <<>>
  /\ sPc = "call"

\* const filename = genFilename(prompt, idx, outputDir)
SlugCall ==
  /\ sPc = "call"
  /\ sName' = GenFilename(sPrompt, sIdx, sDir)
  /\ sPc' = "returned"
  /\ UNCHANGED <<sPrompt, sIdx, sDir>>
  /\ UNCHANGED notSlug

NextSlug == SlugCall

InitSpecSlug == InitSlug /\ InitAllocIdle /\ InitExpandIdle /\ InitBatchIdle
                /\ InitCliIdle /\ InitKeyIdle /\ InitRaceIdle /\ InitDirIdle /\ InitArgsIdle /\ InitPartsIdle /\ InitEditIdle /\ InitConcIdle
SpecSlug == InitSpecSlug /\ [][NextSlug]_vars

\* largest collision suffix genFilename can reach in SpecSlug
SlugMaxSuffix == MaxOrd + Cardinality(DirUniverse) + 1

IsAlnum(ch) == ToLowerChar(ch) \in LowerAlnum
HasAlnum(s) == \E i \in 1..Len(s) : IsAlnum(s[i])
HasWhitespace(s) == \E i \in 1..Len(s) : s[i] \in Whitespace

\* C6 (as stated): every prompt without an alphanumeric character, allocated in
\* a directory that has no image.png, is named exactly "image.png".
C6_Original ==
  (sPc = "returned" /\ ~HasAlnum(sPrompt) /\ PlainName(IMAGE) \notin sDir)
    => sName = PlainName(IMAGE)

\* C6 (amended): every prompt with neither an alphanumeric nor a whitespace
\* character (the empty prompt included), allocated in a directory that has no
\* image.png, is named exactly "image.png"; a prompt made of whitespace and
\* punctuation only has the slug "_" instead.
C6_Fallback ==
  sPc = "returned" =>
    /\ (~HasAlnum(sPrompt) /\ ~HasWhitespace(sPrompt) /\ PlainName(IMAGE) \notin sDir)
          => sName = PlainName(IMAGE)
    /\ (~HasAlnum(sPrompt) /\ HasWhitespace(sPrompt) /\ PlainName(<<"_">>) \notin sDir)
          => sName = PlainName(<<"_">>)

C6_Witness ==
  /\ sPc = "returned"
  /\ sPrompt = <<"!", "!", "!">>
  /\ PlainName(IMAGE) \notin sDir
  /\ NumberedName(IMAGE, 1) \in sDir
  /\ sName = PlainName(IMAGE)

\* The slug as section 4.2 words it, by positions of the prompt: position i
\* survives when its lower-cased character is in [a-z0-9], or is the first
\* whitespace of a run of the stripped string (written "_"); the first 32
\* survivors are kept.
DescribedSlug(p) ==
  LET low == [i \in 1..Len(p) |-> ToLowerChar(p[i])]
      kept == {i \in 1..Len(p) : low[i] \in LowerAlnum \/ low[i] \in Whitespace}
      prev(i) == {j \in kept : j < i /\ \A k \in kept : ~(j < k /\ k < i)}
      out == {i \in kept :
                low[i] \in Whitespace => \A j \in prev(i) : low[j] \notin Whitespace}
      rank(i) == Cardinality({j \in out : j <= i})
      at(n) == CHOOSE i \in out : rank(i) = n
  IN [n \in 1..Min(Cardinality(out), 32) |->
        IF low[at(n)] \in Whitespace THEN "_" ELSE low[at(n)]]

IsNameOf(name, slug) ==
  \/ name = slug \o PNG
  \/ \E n \in 1..SlugMaxSuffix : name = slug \o <<"_">> \o NumToStr(n) \o PNG

\* C7 (as stated): for every prompt the filename is the sanitized, truncated
\* prompt followed by ".png" or "_<n>.png".
C7_Original ==
  sPc = "returned" => IsNameOf(sName, DescribedSlug(sPrompt))

\* C7 (amended): the slug is the lower-cased prompt with every character
\* outside [a-z0-9] and whitespace removed, each whitespace run replaced by one
\* underscore, cut to 32 characters, or "image" when that string is empty; it
\* has at most 32 characters, all in [a-z0-9_], and the filename is the slug
\* followed by ".png" or "_<n>.png".
C7_Slug ==
  sPc = "returned" =>
    LET d == DescribedSlug(sPrompt)
        slug == IF d = <<>> THEN IMAGE ELSE d
    IN /\ GenBase(sPrompt) = slug
       /\ Len(slug) <= 32
       /\ \A i \in 1..Len(slug) : slug[i] \in LowerAlnum \cup {"_"}
       /\ IsNameOf(sName, slug)

\* a prompt longer than 32 characters whose sanitized form is cut, with
\* stripped characters and a collision
C7_Witness ==
  /\ sPc = "returned"
  /\ Len(sPrompt) > 2 * SLUG_MAX
  /\ Len(StripSpecial(ToLowerCase(sPrompt))) < Len(sPrompt)
  /\ Len(GenBase(sPrompt)) = SLUG_MAX
  /\ Len(sName) = SLUG_MAX + Len(PNG)

----------------------------------------------------------------------------
(* SpecAlloc: genFilename and saveImage called repeatedly on one directory *)

\* prompts whose names collide: "a" numbered 1 is the plain name of "a 1"
AllocPrompts == {<<"a">>, <<"a", " ", "1">>, <<"!">>}
\* ordinals: the small ones, and 9 so that the counter reaches two digits
Ordinals == (0..MaxOrd) \cup {9}

InitAlloc ==
  /\ aDir = {}
  /\ aPrompt = <<>>
  /\ aIdx = 0
  /\ aName = <<>>
  /\ aPc = "idle"
  /\ aSeq = <<>>
  /\ aSame = TRUE

\* const filename = genFilename(prompt, idx, outputDir)
AllocCall(p, idx) ==
  /\ aPc = "idle"
  /\ Cardinality(aDir) < MaxFiles
  /\ aPrompt' = p
  /\ aIdx' = idx
  /\ aName' = GenFilename(p, idx, aDir)
  /\ aPc' = "returned"
  /\ aSame' = (aSame /\ idx = 0 /\ (aSeq = <<>> \/ p = aPrompt))
  /\ UNCHANGED <<aDir, aSeq>>
  /\ UNCHANGED notAlloc

\* await fs.promises.writeFile(path.join(out, filename), ...)
AllocSave ==
  /\ aPc = "returned"
  /\ aDir' = aDir \cup {aName}
  /\ aSeq' = Append(aSeq, aName)
  /\ aPc' = "idle"
  /\ UNCHANGED <<aPrompt, aIdx, aName, aSame>>
  /\ UNCHANGED notAlloc

\* the caller does not write the file (as the unit tests do)
AllocDrop ==
  /\ aPc = "returned"
  /\ aPc' = "idle"
  /\ aSame' = FALSE
  /\ UNCHANGED <<aDir, aPrompt, aIdx, aName, aSeq>>
  /\ UNCHANGED notAlloc

NextAlloc ==
  \/ \E p \in AllocPrompts, idx \in Ordinals : AllocCall(p, idx)
  \/ AllocSave
  \/ AllocDrop

InitSpecAlloc == InitAlloc /\ InitSlugIdle /\ InitExpandIdle /\ InitBatchIdle
                 /\ InitCliIdle /\ InitKeyIdle /\ InitRaceIdle /\ InitDirIdle /\ InitArgsIdle /\ InitPartsIdle /\ InitEditIdle /\ InitConcIdle
SpecAlloc == InitSpecAlloc /\ [][NextAlloc]_vars

\* C1: whenever genFilename returns a name, no file of that name exists in
\* the directory at that moment.
C1_FreshName == aPc = "returned" => aName \notin aDir

\* the plain name and the first numbered name were both taken
C1_Witness ==
  /\ aPc = "returned"
  /\ PlainName(GenBase(aPrompt)) \in aDir
  /\ NumberedName(GenBase(aPrompt), IF aIdx > 0 THEN aIdx ELSE 1) \in aDir
  /\ aName \notin aDir

\* C5: genFilename returns slug.png when it is free, otherwise slug_n.png for
\* the smallest n >= max(ordinal, 1) whose name is free; allocating one prompt
\* with ordinal 0 again and again, writing each file, yields slug.png,
\* slug_1.png, slug_2.png, ...
C5_SmallestSuffix ==
  /\ aPc = "returned" =>
       LET base == GenBase(aPrompt)
           lo == IF aIdx >= 1 THEN aIdx ELSE 1
       IN IF PlainName(base) \notin aDir
          THEN aName = PlainName(base)
          ELSE \E n \in lo..(lo + MaxFiles) :
                 /\ aName = NumberedName(base, n)
                 /\ NumberedName(base, n) \notin aDir
                 /\ \A m \in lo..(n - 1) : NumberedName(base, m) \in aDir
  /\ aSame =>
       \A k \in 1..Len(aSeq) :
         aSeq[k] = IF k = 1 THEN PlainName(GenBase(aPrompt))
                   ELSE NumberedName(GenBase(aPrompt), k - 1)

\* the third allocation of one prompt, the first two files written
C5_Witness ==
  /\ aPc = "returned"
  /\ aSame
  /\ Len(aSeq) = 2
  /\ aName = NumberedName(GenBase(aPrompt), 2)

----------------------------------------------------------------------------
(* SpecExpand: lines 109-123 of generate, one line per step *)

RECURSIVE SeqsUpTo(_, _)
\* all sequences over S of length 0..n
SeqsUpTo(S, n) ==
  IF n = 0 THEN {<<>>}
  ELSE LET R == SeqsUpTo(S, n - 1)
       IN R \cup {Append(r, x) : r \in {t \in R : Len(t) = n - 1}, x \in S}

ExpandBases == {<<"c","a","t">>}
StyleNames == {<<"o","i","l">>, <<"i","n","k">>}
VariationTags == {LIGHTING, MOOD, <<"a","n","g","l","e">>}
Counts == (-1)..MaxCount

InitExpand ==
  /\ eBase \in ExpandBases
  /\ eStyles \in SeqsUpTo(StyleNames, MaxStyles)
  /\ eVariations \in SeqsUpTo(VariationTags, MaxVariations)
  /\ eHasCount \in BOOLEAN
  /\ eCount \in IF eHasCount THEN Counts ELSE {0}
  /\ ePrompts = <<eBase>>
  /\ eVaried = <<>>
  /\ eReplicated = <<>>
  /\ ePc = "styles"

eInputs == <<eBase, eStyles, eVariations, eHasCount, eCount>>

\* line 110
StepStyles ==
  /\ ePc = "styles"
  /\ ePrompts' = ExpandStyles(eBase, eStyles)
  /\ ePc' = "variations"
  /\ UNCHANGED <<eInputs, eVaried, eReplicated, notExpand>>

\* lines 111-121
StepVariations ==
  /\ ePc = "variations"
  /\ ePrompts' = ExpandVariations(ePrompts, eVariations)
  /\ eVaried' = ePrompts'
  /\ ePc' = "replicate"
  /\ UNCHANGED <<eInputs, eReplicated, notExpand>>

\* line 122
StepReplicate ==
  /\ ePc = "replicate"
  /\ ePrompts' = ApplyReplicate(ePrompts, eBase, eHasCount, eCount)
  /\ eReplicated' = ePrompts'
  /\ ePc' = "truncate"
  /\ UNCHANGED <<eInputs, eVaried, notExpand>>

\* line 123
StepTruncate ==
  /\ ePc = "truncate"
  /\ ePrompts' = ApplyTruncate(ePrompts, eHasCount, eCount)
  /\ ePc' = "expanded"
  /\ UNCHANGED <<eInputs, eVaried, eReplicated, notExpand>>

NextExpand == StepStyles \/ StepVariations \/ StepReplicate \/ StepTruncate

InitSpecExpand == InitExpand /\ InitSlugIdle /\ InitAllocIdle /\ InitBatchIdle
                  /\ InitCliIdle /\ InitKeyIdle /\ InitRaceIdle /\ InitDirIdle /\ InitArgsIdle /\ InitPartsIdle /\ InitEditIdle /\ InitConcIdle
SpecExpand == InitSpecExpand /\ [][NextExpand]_vars

\* number of prompts one variation tag yields
TagCount(v) == IF v = LIGHTING \/ v = MOOD THEN 2 ELSE 1
\* number of prompts the first j tags yield
TagsThrough(vs, j) == j + Cardinality({i \in 1..j : TagCount(vs[i]) = 2})
\* the r-th suffix of the per-variation expansion of one prompt
SuffixAt(vs, r) ==
  LET j == CHOOSE j \in 1..Len(vs) : TagsThrough(vs, j - 1) < r /\ r <= TagsThrough(vs, j)
      off == r - TagsThrough(vs, j - 1)
  IN IF vs[j] = LIGHTING THEN (IF off = 1 THEN DRAMATIC_LIGHTING ELSE SOFT_LIGHTING)
     ELSE IF vs[j] = MOOD THEN (IF off = 1 THEN CHEERFUL_MOOD ELSE DRAMATIC_MOOD)
     ELSE COMMA \o vs[j]
\* the k-th prompt after the styles
StyledAt(base, styles, k) ==
  IF Len(styles) = 0 THEN base ELSE base \o COMMA \o styles[k] \o STYLE_SUFFIX

\* C8: before count is applied the list holds, style-major, one prompt
\* "<base>, <s> style" per style (or the base alone), each replaced, when
\* variations are given, by its per-variation expansions in variation order
\* (lighting and mood yield two prompts, any other tag one); its length is
\* max(1, |styles|) times the sum of the per-tag output counts.
C8_Expansion ==
  ePc \in {"replicate", "truncate", "expanded"} =>
    LET ns == IF Len(eStyles) = 0 THEN 1 ELSE Len(eStyles)
        t == TagsThrough(eVariations, Len(eVariations))
    IN IF Len(eVariations) = 0
       THEN /\ Len(eVaried) = ns
            /\ \A k \in 1..ns : eVaried[k] = StyledAt(eBase, eStyles, k)
       ELSE /\ Len(eVaried) = ns * t
            /\ \A k \in 1..(ns * t) :
                 eVaried[k] = StyledAt(eBase, eStyles, ((k - 1) \div t) + 1)
                                \o SuffixAt(eVariations, ((k - 1) % t) + 1)

\* two styles, and "mood" followed by a plain tag: six prompts
C8_Witness ==
  /\ ePc = "replicate"
  /\ Len(eStyles) = 2
  /\ eStyles[1] # eStyles[2]
  /\ eVariations = <<MOOD, <<"a","n","g","l","e">>>>
  /\ Len(eVaried) = 6

\* C9: a list of exactly one element is left unchanged when count is unset or
\* 1 (so with no styles, variations or count the result is [base]) and becomes
\* count copies of the unmodified base prompt when count > 1, whatever suffix
\* the single element carried; a list of two or more elements is never
\* replicated.
C9_Replication ==
  ePc = "expanded" =>
    /\ Len(eVaried) = 1 =>
         /\ (~eHasCount \/ eCount = 1) => ePrompts = eVaried
         /\ (eHasCount /\ eCount > 1) =>
              /\ Len(ePrompts) = eCount
              /\ \A i \in 1..eCount : ePrompts[i] = eBase
    /\ (Len(eStyles) = 0 /\ Len(eVariations) = 0 /\ ~eHasCount) => ePrompts = <<eBase>>
    /\ Len(eVaried) >= 2 => eReplicated = eVaried

\* one style and count 2: two copies of the base without the style suffix
C9_Witness ==
  /\ ePc = "expanded"
  /\ Len(eStyles) = 1
  /\ Len(eVariations) = 0
  /\ eHasCount /\ eCount = 2
  /\ eVaried # <<eBase>>
  /\ ePrompts = <<eBase, eBase>>

\* C10: whenever count is set, the final list has at most count elements and
\* is the first count elements of the list before truncation; a list of two
\* or more but fewer than count elements is left unchanged.
C10_Original ==
  (ePc = "expanded" /\ eHasCount) =>
    /\ Len(ePrompts) <= eCount
    /\ ePrompts = SubSeq(eReplicated, 1, Min(eCount, Len(eReplicated)))
    /\ (Len(eReplicated) >= 2 /\ Len(eReplicated) < eCount) => ePrompts = eReplicated

----------------------------------------------------------------------------
(* Spec: one generate or story invocation, await by await *)

LongBase == Repeat(<<"a"," ">>, SLUG_MAX + 2)
BatchBases == {<<"c","a","t">>, LongBase}
BatchStyles == {<<>>, <<<<"o","i","l">>, <<"i","n","k">>>>}
BatchVariations == {<<>>, <<MOOD>>}
BatchCounts == (-1)..MaxBatch
StoryTypes == {<<>>, PROCESS, TIMELINE}
StoryStyles == {<<>>, <<"i","n","k">>}
StoryStepCounts == (-1)..MaxSteps

\* generate requests: a short base with every combination of options, and a
\* base longer than a slug, whose styled prompts all share one slug
GenerateRequests ==
  [kind : {"generate"}, base : {<<"c","a","t">>}, styles : BatchStyles,
   variations : BatchVariations, hasCount : {TRUE}, count : BatchCounts,
   preview : BOOLEAN]
  \cup
  [kind : {"generate"}, base : BatchBases, styles : BatchStyles,
   variations : BatchVariations, hasCount : {FALSE}, count : {0},
   preview : {FALSE}]

StoryRequests ==
  [kind : {"story"}, base : {<<"c","a","t">>}, steps : StoryStepCounts, type : StoryTypes,
   style : {<<>>}, transition : {<<>>}, preview : BOOLEAN]
  \cup
  [kind : {"story"}, base : {<<"c","a","t">>}, steps : {1}, type : {<<>>},
   style : StoryStyles, transition : StoryStyles, preview : {FALSE}]

\* a file that is already in the output directory
OldFile == [item |-> 0, whole |-> TRUE]
InitialDirs == {[n \in {PlainName(<<"c","a","t">>)} |-> OldFile]}

InitBatch ==
  /\ bReq \in GenerateRequests \cup StoryRequests
  /\ bKey \in BOOLEAN
  /\ bDirExists \in BOOLEAN
  /\ bDir \in IF bDirExists THEN InitialDirs ELSE {<<>>}
  /\ bPrompts = <<>>
  /\ bI = 0
  /\ bPc = "call"
  /\ bFiles = <<>>
  /\ bLog = <<>>
  /\ bCalls = <<>>
  /\ bInFlight = 0
  /\ bName = <<>>
  /\ bOutcome = <<>>
  /\ bJ = 0
  /\ bLaunchFailed = FALSE

\* the prompt genFilename is given for item i (0-based) and its ordinal
FilePrompt(req, prompts, i) ==
  IF req.kind = "generate" THEN prompts[i + 1] ELSE StoryFilePrompt(req.base, i, req.type)
FileOrdinal(req, i) == IF req.kind = "generate" THEN i ELSE 0

\* generate, lines 104-125: getApiKey (throws without a key), ensureOutputDir,
\* the prompt list
GenerateStart ==
  /\ bPc = "call"
  /\ bReq.kind = "generate"
  /\ IF ~bKey
     THEN /\ bPc' = "threw"
          /\ UNCHANGED <<bDirExists, bPrompts>>
     ELSE /\ bDirExists' = TRUE
          /\ bPrompts' = ExpandPrompts(bReq.base, bReq.styles, bReq.variations,
                                       bReq.hasCount, bReq.count)
          /\ bPc' = "loop"
  /\ UNCHANGED <<bReq, bKey, bDir, bI, bFiles, bLog, bCalls, bInFlight, bName,
                 bOutcome, bJ, bLaunchFailed>>
  /\ UNCHANGED notBatch

\* story, lines 195-202
StoryStart ==
  /\ bPc = "call"
  /\ bReq.kind = "story"
  /\ IF ~bKey
     THEN /\ bPc' = "threw"
          /\ UNCHANGED <<bDirExists, bPrompts>>
     ELSE /\ bDirExists' = TRUE
          /\ bPrompts' = StoryPrompts(bReq.base, bReq.steps, bReq.type, bReq.style,
                                      bReq.transition)
          /\ bPc' = "loop"
  /\ UNCHANGED <<bReq, bKey, bDir, bI, bFiles, bLog, bCalls, bInFlight, bName,
                 bOutcome, bJ, bLaunchFailed>>
  /\ UNCHANGED notBatch

\* for (let i = 0; i < prompts.length; i++) { try { const res = await
\* ai.models.generateContent(...): the request for item i is sent
LoopIssue ==
  /\ bPc = "loop"
  /\ bI < Len(bPrompts)
  /\ bCalls' = Append(bCalls, bPrompts[bI + 1])
  /\ bInFlight' = bInFlight + 1
  /\ bPc' = "api"
  /\ UNCHANGED <<bReq, bKey, bDirExists, bDir, bPrompts, bI, bFiles, bLog, bName,
                 bOutcome, bJ, bLaunchFailed>>
  /\ UNCHANGED notBatch

\* (mutant) a failed call is retried: the loop index does not advance
ApiFailRetry ==
  /\ bPc = "api"
  /\ bInFlight' = bInFlight - 1
  /\ bLog' = Append(bLog, [level |-> "error", item |-> bI + 1])
  /\ bPc' = "loop"
  /\ UNCHANGED <<bReq, bKey, bDirExists, bDir, bPrompts, bFiles, bCalls, bName,
                 bJ, bLaunchFailed, bOutcome, bI>>
  /\ UNCHANGED notBatch

\* (mutant) no try/catch around the call: the rejection leaves generate
ApiFailAbort ==
  /\ bPc = "api"
  /\ bInFlight' = bInFlight - 1
  /\ bOutcome' = Append(bOutcome, [result |-> "apiError", name |-> <<>>])
  /\ bPc' = "threw"
  /\ UNCHANGED <<bReq, bKey, bDirExists, bDir, bPrompts, bFiles, bCalls, bName,
                 bJ, bLaunchFailed, bLog, bI>>
  /\ UNCHANGED notBatch

\* (mutant) a failed call rolls the batch back: the files written so far are
\* deleted
ApiFailRollback ==
  /\ bPc = "api"
  /\ bInFlight' = bInFlight - 1
  /\ bLog' = Append(bLog, [level |-> "error", item |-> bI + 1])
  /\ bOutcome' = Append(bOutcome, [result |-> "apiError", name |-> <<>>])
  /\ bDir' = [n \in {x \in DOMAIN bDir : bDir[x].item = 0} |-> bDir[n]]
  /\ bFiles' = <<>>
  /\ bI' = bI + 1
  /\ bPc' = "loop"
  /\ UNCHANGED <<bReq, bKey, bDirExists, bPrompts, bCalls, bName, bJ, bLaunchFailed>>
  /\ UNCHANGED notBatch

\* the awaited call rejects: catch (e) { console.error(...) }, next item
ApiFail ==
  /\ bPc = "api"
  /\ bInFlight' = bInFlight - 1
  /\ bLog' = Append(bLog, [level |-> "error", item |-> bI + 1])
  /\ bOutcome' = Append(bOutcome, [result |-> "apiError", name |-> <<>>])
  /\ bI' = bI + 1
  /\ bPc' = "loop"
  /\ UNCHANGED <<bReq, bKey, bDirExists, bDir, bPrompts, bFiles, bCalls, bName,
                 bJ, bLaunchFailed>>
  /\ UNCHANGED notBatch

\* the awaited call resolves with the given parts: the first part with image
\* data is named by genFilename and saveImage starts writing it; with no such
\* part the loop body ends without a word
ApiReturn(parts) ==
  /\ bPc = "api"
  /\ bInFlight' = bInFlight - 1
  /\ IF FirstImage(parts) = 0
     THEN /\ bOutcome' = Append(bOutcome, [result |-> "noImage", name |-> <<>>])
          /\ bI' = bI + 1
          /\ bPc' = "loop"
          /\ UNCHANGED bName
     ELSE /\ bName' = GenFilename(FilePrompt(bReq, bPrompts, bI), FileOrdinal(bReq, bI),
                                  DOMAIN bDir)
          /\ bPc' = "write"
          /\ UNCHANGED <<bOutcome, bI>>
  /\ UNCHANGED <<bReq, bKey, bDirExists, bDir, bPrompts, bFiles, bLog, bCalls,
                 bJ, bLaunchFailed>>
  /\ UNCHANGED notBatch

\* dir with file name holding content
WithFile(dir, name, content) ==
  [n \in DOMAIN dir \cup {name} |-> IF n = name THEN content ELSE dir[n]]

\* await fs.promises.writeFile resolves: files.push(f); console.log(f); break
WriteOk ==
  /\ bPc = "write"
  /\ bDir' = WithFile(bDir, bName, [item |-> bI + 1, whole |-> TRUE])
  /\ bFiles' = Append(bFiles, bName)
  /\ bLog' = Append(bLog, [level |-> "log", item |-> bI + 1])
  /\ bOutcome' = Append(bOutcome, [result |-> "saved", name |-> bName])
  /\ bI' = bI + 1
  /\ bPc' = "loop"
  /\ UNCHANGED <<bReq, bKey, bDirExists, bPrompts, bCalls, bInFlight, bName,
                 bJ, bLaunchFailed>>
  /\ UNCHANGED notBatch

\* writeFile rejects (the file may have been created, incomplete): caught and
\* logged like a failed call
WriteFail(created) ==
  /\ bPc = "write"
  /\ bDir' = IF created THEN WithFile(bDir, bName, [item |-> bI + 1, whole |-> FALSE])
             ELSE bDir
  /\ bLog' = Append(bLog, [level |-> "error", item |-> bI + 1])
  /\ bOutcome' = Append(bOutcome, [result |-> "writeError", name |-> <<>>])
  /\ bI' = bI + 1
  /\ bPc' = "loop"
  /\ UNCHANGED <<bReq, bKey, bDirExists, bPrompts, bFiles, bCalls, bInFlight, bName,
                 bJ, bLaunchFailed>>
  /\ UNCHANGED notBatch

\* the loop is over: if (opts.preview) for (const f of files) ...; return files
LoopEnd ==
  /\ bPc = "loop"
  /\ bI >= Len(bPrompts)
  /\ bPc' = IF bReq.preview /\ Len(bFiles) > 0 THEN "preview" ELSE "done"
  /\ UNCHANGED <<bReq, bKey, bDirExists, bDir, bPrompts, bI, bFiles, bLog, bCalls,
                 bInFlight, bName, bOutcome, bJ, bLaunchFailed>>
  /\ UNCHANGED notBatch

\* (mutant) no try/catch in openFile: a viewer that does not start is logged
\* and ends generate with the exception
OpenFileThrows(launched) ==
  /\ bPc = "preview"
  /\ bJ' = bJ + 1
  /\ bLaunchFailed' = (bLaunchFailed \/ ~launched)
  /\ bLog' = IF launched THEN bLog ELSE Append(bLog, [level |-> "error", item |-> 0])
  /\ bPc' = IF ~launched THEN "threw"
            ELSE IF bJ + 1 >= Len(bFiles) THEN "done" ELSE "preview"
  /\ UNCHANGED <<bReq, bKey, bDirExists, bDir, bPrompts, bI, bFiles, bCalls,
                 bInFlight, bName, bOutcome>>
  /\ UNCHANGED notBatch

\* await openFile(f): the viewer starts or not; a failure is swallowed
OpenFile(launched) ==
  /\ bPc = "preview"
  /\ bJ' = bJ + 1
  /\ bLaunchFailed' = (bLaunchFailed \/ ~launched)
  /\ bPc' = IF bJ + 1 >= Len(bFiles) THEN "done" ELSE "preview"
  /\ UNCHANGED <<bReq, bKey, bDirExists, bDir, bPrompts, bI, bFiles, bLog, bCalls,
                 bInFlight, bName, bOutcome>>
  /\ UNCHANGED notBatch

Responses == SeqsUpTo(PartKinds, MaxParts)

Next ==
  \/ GenerateStart
  \/ StoryStart
  \/ LoopIssue
  \/ ApiFail
  \/ \E parts \in Responses : ApiReturn(parts)
  \/ WriteOk
  \/ \E created \in BOOLEAN : WriteFail(created)
  \/ LoopEnd
  \/ \E launched \in BOOLEAN : OpenFile(launched)

InitSpec == InitBatch /\ InitSlugIdle /\ InitAllocIdle /\ InitExpandIdle
            /\ InitCliIdle /\ InitKeyIdle /\ InitRaceIdle /\ InitDirIdle /\ InitArgsIdle /\ InitPartsIdle /\ InitEditIdle /\ InitConcIdle
Spec == InitSpec /\ [][Next]_vars

\* the items (1-based) whose file was saved, in prompt order
SavedItems(outcome) ==
  LET IsSaved(j) == outcome[j].result = "saved"
  IN SelectSeq([j \in 1..Len(outcome) |-> j], IsSaved)

\* C2: every prompt of the list is submitted exactly once, in list order; the
\* call for an item is issued only when every earlier call has returned or
\* failed and, where it succeeded, its file is written; at most one call is in
\* flight.
C2_Sequential ==
  /\ bInFlight <= 1
  /\ (bInFlight = 1) = (bPc = "api")
  /\ Len(bCalls) <= Len(bPrompts)
  /\ \A k \in 1..Len(bCalls) : bCalls[k] = bPrompts[k]
  /\ Len(bCalls) = (IF bPc \in {"api", "write"} THEN Len(bOutcome) + 1 ELSE Len(bOutcome))
  /\ \A j \in 1..Len(bOutcome) :
       bOutcome[j].result = "saved" => bOutcome[j].name \in DOMAIN bDir
  /\ bPc \in {"preview", "done"} => bCalls = bPrompts

\* the third call is in flight after one failed call and one saved file
C2_Witness ==
  /\ bPc = "api"
  /\ Len(bCalls) = 3
  /\ bOutcome[1].result = "apiError"
  /\ bOutcome[2].result = "saved"
  /\ bPrompts[2] # bPrompts[3]

\* C3: a failed call or a failed save never ends the batch: every prompt is
\* submitted, and the list returned holds exactly the paths of the items that
\* succeeded, in prompt order, each file on disk with its item's image.
C3_BatchSurvives ==
  /\ bPc = "threw" => (~bKey /\ bCalls = <<>>)
  /\ bPc \in {"preview", "done"} =>
       LET items == SavedItems(bOutcome)
       IN /\ Len(bCalls) = Len(bPrompts)
          /\ Len(bOutcome) = Len(bPrompts)
          /\ Len(bFiles) = Len(items)
          /\ \A k \in 1..Len(items) :
               /\ bFiles[k] = bOutcome[items[k]].name
               /\ bFiles[k] \in DOMAIN bDir
               /\ bDir[bFiles[k]] = [item |-> items[k], whole |-> TRUE]

\* five prompts, the second call fails: four files
C3_Witness ==
  /\ bPc = "done"
  /\ Len(bPrompts) = 5
  /\ bOutcome[2].result = "apiError"
  /\ Len(bFiles) = 4
  /\ Cardinality({n \in DOMAIN bDir : bDir[n].item > 0 /\ bDir[n].whole}) = 4

\* C4: every prompt that is absent from the result list has an error logged
\* for it, when the call failed and when the response held no image data.
C4_Original ==
  bPc \in {"preview", "done"} =>
    \A j \in 1..Len(bOutcome) :
      bOutcome[j].result # "saved" =>
        \E l \in 1..Len(bLog) : bLog[l] = [level |-> "error", item |-> j]

----------------------------------------------------------------------------
(* SpecCli: one run of the command line, main of cli.ts and the entry of    *)
(* the function it awaits                                                    *)

GENERATE == <<"g","e","n","e","r","a","t","e">>
EDIT == <<"e","d","i","t">>
RESTORE == <<"r","e","s","t","o","r","e">>
ICON == <<"i","c","o","n">>
PATTERN == <<"p","a","t","t","e","r","n">>
DIAGRAM == <<"d","i","a","g","r","a","m">>
TIPS == <<"t","i","p","s">>
HELP_LONG == <<"-","-","h","e","l","p">>
HELP_SHORT == <<"-","h">>
Subcommands == {GENERATE, EDIT, RESTORE, ICON, PATTERN, DIAGRAM, STORY, TIPS}

\* main ends without a call: return (code 0) or console.error and exit(1)
Returns == [kind |-> "return", code |-> 0, errors |-> 0, call |-> NoCall]
ExitsWithError == [kind |-> "exit", code |-> 1, errors |-> 1, call |-> NoCall]
Calls(call) == [kind |-> "call", code |-> 0, errors |-> 0, call |-> call]

\* flags.k?.split(",")
SplitFlag(flags, k) == IF k \in DOMAIN flags THEN Split(flags[k], ",") ELSE <<>>
\* flags.k ? parseInt(flags.k) : dflt
IntFlag(flags, k) == IF k \in DOMAIN flags THEN ParseInt(flags[k]) ELSE [nan |-> TRUE, value |-> 0]

\* (mutant) the check of the prompt is missing
MissingNever(prompt) == FALSE

\* if (!prompt) { console.error(...); process.exit(1); }
Missing(prompt) == prompt = <<>>

\* case "generate", lines 24-34
CaseGenerate(pos, flags, preview) ==
  LET prompt == Join(pos, SPACE)
      count == IntFlag(flags, <<"c","o","u","n","t">>)
  IN IF Missing(prompt) THEN ExitsWithError
     ELSE Calls([NoCall EXCEPT !.fn = "generate", !.prompt = prompt,
                               !.hasCount = ~count.nan, !.count = count.value,
                               !.styles = SplitFlag(flags, <<"s","t","y","l","e","s">>),
                               !.variations = SplitFlag(flags, <<"v","a","r","i","a","t","i","o","n","s">>),
                               !.preview = preview])

\* case "edit", lines 35-41
CaseEdit(pos, preview) ==
  LET file == IF pos = <<>> THEN <<>> ELSE Head(pos)
      prompt == IF pos = <<>> THEN <<>> ELSE Join(Tail(pos), SPACE)
  IN IF Missing(file) \/ Missing(prompt) THEN ExitsWithError
     ELSE Calls([NoCall EXCEPT !.fn = "edit", !.file = file, !.prompt = prompt,
                               !.mode = EDIT, !.preview = preview])

\* case "restore", lines 42-48
CaseRestore(pos, preview) ==
  LET file == IF pos = <<>> THEN <<>> ELSE Head(pos)
      prompt == OrDefault(IF pos = <<>> THEN <<>> ELSE Join(Tail(pos), SPACE),
                          <<"r","e","s","t","o","r","e"," ","a","n","d"," ","e","n","h","a","n","c","e"," ","t","h","i","s"," ","i","m","a","g","e">>)
  IN IF Missing(file) THEN ExitsWithError
     ELSE Calls([NoCall EXCEPT !.fn = "edit", !.file = file, !.prompt = prompt,
                               !.mode = RESTORE, !.preview = preview])

\* case "icon", lines 49-63
CaseIcon(pos, flags, preview) ==
  LET prompt == Join(pos, SPACE)
      type == OrDefault(Flag(flags, <<"t","y","p","e">>), <<"a","p","p","-","i","c","o","n">>)
      style == OrDefault(Flag(flags, <<"s","t","y","l","e">>), <<"m","o","d","e","r","n">>)
      bg == OrDefault(Flag(flags, <<"b","a","c","k","g","r","o","u","n","d">>), <<"t","r","a","n","s","p","a","r","e","n","t">>)
      corners == OrDefault(Flag(flags, <<"c","o","r","n","e","r","s">>), <<"r","o","u","n","d","e","d">>)
      named == prompt \o COMMA \o style \o <<" ","s","t","y","l","e"," ">> \o type
      cornered == IF type = <<"a","p","p","-","i","c","o","n">> THEN named \o COMMA \o corners \o <<" ","c","o","r","n","e","r","s">>
                  ELSE named
      grounded == IF bg # <<"t","r","a","n","s","p","a","r","e","n","t">> THEN cornered \o COMMA \o bg \o <<" ","b","a","c","k","g","r","o","u","n","d">>
                  ELSE cornered
      full == grounded \o <<","," ","c","l","e","a","n"," ","d","e","s","i","g","n",","," ","h","i","g","h"," ","q","u","a","l","i","t","y">>
      sizes == Len(Split(OrDefault(Flag(flags, <<"s","i","z","e","s">>), <<"2","5","6">>), ","))
  IN IF Missing(prompt) THEN ExitsWithError
     ELSE Calls([NoCall EXCEPT !.fn = "generate", !.prompt = full, !.hasCount = TRUE,
                               !.count = sizes, !.preview = preview])

\* case "pattern", lines 64-77
CasePattern(pos, flags, preview) ==
  LET prompt == Join(pos, SPACE)
      type == OrDefault(Flag(flags, <<"t","y","p","e">>), <<"s","e","a","m","l","e","s","s">>)
      style == OrDefault(Flag(flags, <<"s","t","y","l","e">>), <<"a","b","s","t","r","a","c","t">>)
      density == OrDefault(Flag(flags, <<"d","e","n","s","i","t","y">>), <<"m","e","d","i","u","m">>)
      colors == OrDefault(Flag(flags, <<"c","o","l","o","r","s">>), <<"c","o","l","o","r","f","u","l">>)
      size == OrDefault(Flag(flags, <<"s","i","z","e">>), <<"2","5","6","x","2","5","6">>)
      named == prompt \o COMMA \o style \o <<" ","s","t","y","l","e"," ">> \o type \o <<" ","p","a","t","t","e","r","n",","," ">>
               \o density \o <<" ","d","e","n","s","i","t","y",","," ">> \o colors \o <<" ","c","o","l","o","r","s">>
      tiled == IF type = <<"s","e","a","m","l","e","s","s">> THEN named \o <<","," ","t","i","l","e","a","b","l","e">> ELSE named
      full == tiled \o COMMA \o size \o <<","," ","h","i","g","h"," ","q","u","a","l","i","t","y">>
  IN IF Missing(prompt) THEN ExitsWithError
     ELSE Calls([NoCall EXCEPT !.fn = "generate", !.prompt = full, !.preview = preview])

\* case "diagram", lines 78-89
CaseDiagram(pos, flags, preview) ==
  LET prompt == Join(pos, SPACE)
      type == OrDefault(Flag(flags, <<"t","y","p","e">>), <<"f","l","o","w","c","h","a","r","t">>)
      style == OrDefault(Flag(flags, <<"s","t","y","l","e">>), <<"p","r","o","f","e","s","s","i","o","n","a","l">>)
      layout == OrDefault(Flag(flags, <<"l","a","y","o","u","t">>), <<"h","i","e","r","a","r","c","h","i","c","a","l">>)
      complexity == OrDefault(Flag(flags, <<"c","o","m","p","l","e","x","i","t","y">>), <<"d","e","t","a","i","l","e","d">>)
      colors == OrDefault(Flag(flags, <<"c","o","l","o","r","s">>), <<"a","c","c","e","n","t">>)
      full == prompt \o COMMA \o type \o <<" ","d","i","a","g","r","a","m",","," ">> \o style \o <<" ","s","t","y","l","e",","," ">>
              \o layout \o <<" ","l","a","y","o","u","t",","," ">> \o complexity \o <<" ","d","e","t","a","i","l",","," ">> \o colors
              \o <<" ","c","o","l","o","r","s",","," ","c","l","e","a","r"," ","v","i","s","u","a","l"," ","h","i","e","r","a","r","c","h","y">>
  IN IF Missing(prompt) THEN ExitsWithError
     ELSE Calls([NoCall EXCEPT !.fn = "generate", !.prompt = full, !.preview = preview])

\* case "story", lines 90-101: steps is parseInt(flags.steps) or 4
CaseStory(pos, flags, preview) ==
  LET prompt == Join(pos, SPACE)
      steps == IntFlag(flags, <<"s","t","e","p","s">>)
  IN IF Missing(prompt) THEN ExitsWithError
     ELSE Calls([NoCall EXCEPT !.fn = "story", !.prompt = prompt,
                               !.steps = IF <<"s","t","e","p","s">> \in DOMAIN flags
                                         THEN (IF steps.nan THEN 0 ELSE steps.value)
                                         ELSE DEFAULT_STEPS,
                               !.type = Flag(flags, <<"t","y","p","e">>),
                               !.style = Flag(flags, <<"s","t","y","l","e">>),
                               !.transition = Flag(flags, <<"t","r","a","n","s","i","t","i","o","n">>),
                               !.preview = preview])

\* (mutant) the fallback prompt is built like the prompt of generate, from the
\* positional arguments after the first
FallbackPromptNoCmd(cmd, pos) == Join(pos, SPACE)

\* [cmd, ...pos].join(" ")
FallbackPrompt(cmd, pos) == Join(<<cmd>> \o pos, SPACE)

\* default, lines 105-107
CaseDefault(cmd, pos, preview) ==
  Calls([NoCall EXCEPT !.fn = "generate", !.prompt = FallbackPrompt(cmd, pos),
                       !.preview = preview])

\* main up to the call it awaits, lines 13-108
Main(args) ==
  IF args = <<>> \/ args[1] = HELP_LONG \/ args[1] = HELP_SHORT THEN Returns
  ELSE LET cmd == args[1]
           parsed == ParseArgs(Tail(args))
           pos == parsed.pos
           flags == parsed.flags
           preview == Flag(flags, <<"p","r","e","v","i","e","w">>) = TRUE_STR \/ Flag(flags, <<"p">>) = TRUE_STR
       IN CASE cmd = GENERATE -> CaseGenerate(pos, flags, preview)
            [] cmd = EDIT -> CaseEdit(pos, preview)
            [] cmd = RESTORE -> CaseRestore(pos, preview)
            [] cmd = ICON -> CaseIcon(pos, flags, preview)
            [] cmd = PATTERN -> CasePattern(pos, flags, preview)
            [] cmd = DIAGRAM -> CaseDiagram(pos, flags, preview)
            [] cmd = STORY -> CaseStory(pos, flags, preview)
            [] cmd = TIPS -> Returns
            [] OTHER -> CaseDefault(cmd, pos, preview)

\* first arguments: the subcommands, the help flags, a free word, a flag
FirstArgs ==
  Subcommands \cup {HELP_LONG, HELP_SHORT, <<"c","a","t">>, <<"-","-","c","o","u","n","t","=","2">>}
\* later arguments: words, a file name, flags with and without a value
LaterArgs ==
  {<<"c","a","t">>, <<"x",".","p","n","g">>, <<"-","p">>, <<"-","-","c","o","u","n","t","=","-","1">>, <<"-","-","c","o","u","n","t","=","9">>, <<"-","-","c","o","u","n","t","=","2">>,
   <<"-","-","c","o","u","n","t">>, <<"-","-","s","t","y","l","e","s","=","o","i","l",",","i","n","k">>, <<"-","-","s","t","e","p","s","=","1">>}
CliArgs ==
  {<<>>} \cup {<<first>> \o rest : first \in FirstArgs, rest \in SeqsUpTo(LaterArgs, MaxArgs)}

\* no credential (one variable set to the empty string), or one
CliEnvs ==
  {[NoEnv EXCEPT !.GEMINI_API_KEY = <<>>], [NoEnv EXCEPT !.GOOGLE_API_KEY = <<"k">>]}
\* where x.png is when edit or restore looks for it: nowhere, in the output directory, on the desktop and in
\* Downloads
CliFiles ==
  {{}, {[at |-> "output", name |-> <<"x",".","p","n","g">>]},
   {[at |-> "desktop", name |-> <<"x",".","p","n","g">>], [at |-> "downloads", name |-> <<"x",".","p","n","g">>]}}

InitCli ==
  /\ cArgs \in CliArgs
  /\ cEnv \in CliEnvs
  /\ cFiles \in IF cArgs # <<>> /\ cArgs[1] \in {EDIT, RESTORE} THEN CliFiles ELSE {{}}
  /\ cPc = "main"
  /\ cCall = NoCall
  /\ cPrompts = <<>>
  /\ cErrors = 0
  /\ cExit = 0
  /\ cApiCalls = 0

\* main runs to the call it awaits, or to its end
CliMain ==
  /\ cPc = "main"
  /\ LET m == Main(cArgs)
     IN /\ cCall' = m.call
        /\ cErrors' = cErrors + m.errors
        /\ cExit' = m.code
        /\ cPc' = IF m.kind = "call" THEN "called" ELSE "exited"
  /\ UNCHANGED <<cArgs, cEnv, cFiles, cPrompts, cApiCalls>>
  /\ UNCHANGED notCli

\* generate, lines 104-125: getApiKey throws into main().catch (console.error,
\* exit 1), else the prompt list is built
GenerateEnter ==
  /\ cPc = "called"
  /\ cCall.fn = "generate"
  /\ IF KeyThrows(cEnv)
     THEN /\ cErrors' = cErrors + 1
          /\ cExit' = 1
          /\ cPc' = "exited"
          /\ UNCHANGED cPrompts
     ELSE /\ cPrompts' = ExpandPrompts(cCall.prompt, cCall.styles, cCall.variations,
                                       cCall.hasCount, cCall.count)
          /\ cPc' = "running"
          /\ UNCHANGED <<cErrors, cExit>>
  /\ UNCHANGED <<cArgs, cEnv, cFiles, cCall, cApiCalls>>
  /\ UNCHANGED notCli

\* story, lines 195-202
StoryEnter ==
  /\ cPc = "called"
  /\ cCall.fn = "story"
  /\ IF KeyThrows(cEnv)
     THEN /\ cErrors' = cErrors + 1
          /\ cExit' = 1
          /\ cPc' = "exited"
          /\ UNCHANGED cPrompts
     ELSE /\ cPrompts' = StoryPrompts(cCall.prompt, cCall.steps, cCall.type, cCall.style,
                                      cCall.transition)
          /\ cPc' = "running"
          /\ UNCHANGED <<cErrors, cExit>>
  /\ UNCHANGED <<cArgs, cEnv, cFiles, cCall, cApiCalls>>
  /\ UNCHANGED notCli

\* edit, lines 154-164: findFile, getApiKey and readFile each throw into
\* main().catch; else the one request is ready
EditEnter(readable) ==
  /\ cPc = "called"
  /\ cCall.fn = "edit"
  /\ IF FindFile(cCall.file, cFiles) = NoFile \/ KeyThrows(cEnv) \/ ~readable
     THEN /\ cErrors' = cErrors + 1
          /\ cExit' = 1
          /\ cPc' = "exited"
          /\ UNCHANGED cPrompts
     ELSE /\ cPrompts' = <<cCall.prompt>>
          /\ cPc' = "running"
          /\ UNCHANGED <<cErrors, cExit>>
  /\ UNCHANGED <<cArgs, cEnv, cFiles, cCall, cApiCalls>>
  /\ UNCHANGED notCli

\* one await of generateContent in the loop (or in edit): a rejection is
\* caught and logged by console.error
CliCallApi(ok) ==
  /\ cPc = "running"
  /\ cApiCalls < Len(cPrompts)
  /\ cApiCalls' = cApiCalls + 1
  /\ cErrors' = IF ok THEN cErrors ELSE cErrors + 1
  /\ UNCHANGED <<cArgs, cEnv, cFiles, cPc, cCall, cPrompts, cExit>>
  /\ UNCHANGED notCli

\* the awaited function returns and main ends: exit code 0
CliReturn ==
  /\ cPc = "running"
  /\ cApiCalls >= Len(cPrompts)
  /\ cPc' = "exited"
  /\ cExit' = 0
  /\ UNCHANGED <<cArgs, cEnv, cFiles, cCall, cPrompts, cErrors, cApiCalls>>
  /\ UNCHANGED notCli

NextCli ==
  \/ CliMain
  \/ GenerateEnter
  \/ StoryEnter
  \/ \E readable \in BOOLEAN : EditEnter(readable)
  \/ \E ok \in BOOLEAN : CliCallApi(ok)
  \/ CliReturn

InitSpecCli == InitCli /\ InitSlugIdle /\ InitAllocIdle /\ InitExpandIdle /\ InitBatchIdle
    /\ InitKeyIdle /\ InitRaceIdle /\ InitDirIdle /\ InitArgsIdle
    /\ InitPartsIdle /\ InitEditIdle /\ InitConcIdle
SpecCli == InitSpecCli /\ [][NextCli]_vars

----------------------------------------------------------------------------
(* The command line: what reaches generate, and how a run ends *)

\* the documented range of --count
COUNT_MIN == 1
COUNT_MAX == 8

\* an argument parseArgs keeps as a positional argument
IsPositional(a) == ~StartsWith(a, <<DASH, DASH>>) /\ ~(StartsWith(a, <<DASH>>) /\ Len(a) = 2)
\* the positional arguments after the first argument
Positionals(args) == SelectSeq(Tail(args), IsPositional)
\* some credential variable holds a non-empty value
CredentialSet(env) ==
  \/ Truthy(env.NANOBANANA_GEMINI_API_KEY)
  \/ Truthy(env.GEMINI_API_KEY)
  \/ Truthy(env.GOOGLE_API_KEY)

\* C11: the prompt list generate iterates over has at least one element, for
\* every prompt, --styles, --variations and --count of the command line
C11_Original ==
  (cPc = "running" /\ cCall.fn = "generate") => Len(cPrompts) >= 1

\* C12: whenever generate runs with a count, the count is an integer in 1..8
C12_Original ==
  (cPc = "running" /\ cCall.fn = "generate" /\ cCall.hasCount)
    => cCall.count \in COUNT_MIN..COUNT_MAX

\* C13: with no credential variable set, a run that reaches generate, edit or
\* story never issues an API call, and it ends with exactly one reported
\* error and exit code 1
C13_NoCredential ==
  ~CredentialSet(cEnv) =>
    /\ cApiCalls = 0
    /\ cPc # "running"
    /\ (cPc = "exited" /\ cCall.fn # "none") => (cErrors = 1 /\ cExit = 1)

C13_Witness ==
  /\ cPc = "exited"
  /\ ~CredentialSet(cEnv)
  /\ cCall.fn = "edit"
  /\ FindFile(cCall.file, cFiles) # NoFile
  /\ cExit = 1

\* the input errors: no prompt, no file, or a file that is not found
NoPrompt(args) ==
  /\ args[1] \in {GENERATE, ICON, PATTERN, DIAGRAM, STORY}
  /\ Join(Positionals(args), SPACE) = <<>>
NoFileOrPrompt(args) ==
  \/ /\ args[1] \in {EDIT, RESTORE}
     /\ (Positionals(args) = <<>> \/ Head(Positionals(args)) = <<>>)
  \/ /\ args[1] = EDIT
     /\ Positionals(args) # <<>>
     /\ Join(Tail(Positionals(args)), SPACE) = <<>>
FileNotFound(args, files) ==
  /\ args[1] \in {EDIT, RESTORE}
  /\ Positionals(args) # <<>>
  /\ FindFile(Head(Positionals(args)), files) = NoFile
InputError(args, files) ==
  args # <<>> /\ (NoPrompt(args) \/ NoFileOrPrompt(args) \/ FileNotFound(args, files))

\* C14: a run with an input error never issues an API call, and it ends with
\* one reported error and exit code 1
C14_InputError ==
  InputError(cArgs, cFiles) =>
    /\ cApiCalls = 0
    /\ cPc # "running"
    /\ cPc = "exited" => (cErrors = 1 /\ cExit = 1)

C14_Witness ==
  /\ cPc = "exited"
  /\ cArgs # <<>>
  /\ CredentialSet(cEnv)
  /\ FileNotFound(cArgs, cFiles)
  /\ ~NoFileOrPrompt(cArgs)
  /\ cCall.fn = "edit"
  /\ cExit = 1

\* C19 (as stated): when the first argument is not a subcommand, generate is
\* called with all the arguments, joined, as its prompt
C19_Original ==
  (cPc # "main" /\ cArgs # <<>> /\ cArgs[1] \notin Subcommands)
    => (cCall.fn = "generate" /\ cCall.prompt = Join(cArgs, SPACE))

\* C19 (amended): when the first argument is neither a subcommand nor a help
\* flag, generate is called with the first argument and the later positional
\* arguments, joined by blanks, as its prompt, with no count, styles or
\* variations; the preview is on only if some later argument is a flag
C19_Fallback ==
  (cPc # "main" /\ cArgs # <<>>
     /\ cArgs[1] \notin Subcommands \cup {HELP_LONG, HELP_SHORT})
    => /\ cCall.fn = "generate"
       /\ cCall.prompt = Join(<<cArgs[1]>> \o Positionals(cArgs), SPACE)
       /\ ~cCall.hasCount
       /\ cCall.styles = <<>>
       /\ cCall.variations = <<>>
       /\ cCall.preview => \E i \in 2..Len(cArgs) : ~IsPositional(cArgs[i])

C19_Witness ==
  /\ cPc = "running"
  /\ cArgs[1] = <<"c","a","t">>
  /\ \E i \in 2..Len(cArgs) : ~IsPositional(cArgs[i]) /\ cArgs[i] # <<"-","p">>
  /\ \E i \in 2..Len(cArgs) : IsPositional(cArgs[i])
  /\ cCall.prompt = <<"c","a","t"," ","c","a","t">>

----------------------------------------------------------------------------
(* SpecKey: getApiKey on every setting of the three credential variables *)

\* a variable is not set, set to the empty string, or set to a key
KeyValues == {Undefined, <<>>, <<"n">>, <<"g">>, <<"o">>}

InitKey ==
  /\ kEnv \in [NANOBANANA_GEMINI_API_KEY : KeyValues, GEMINI_API_KEY : KeyValues,
               GOOGLE_API_KEY : KeyValues]
  /\ kKey = Undefined
  /\ kPc = "call"

\* getApiKey, lines 13-23: returns the key or throws
GetApiKeyCall ==
  /\ kPc = "call"
  /\ kKey' = GetApiKey(kEnv)
  /\ kPc' = IF KeyThrows(kEnv) THEN "threw" ELSE "returned"
  /\ UNCHANGED kEnv
  /\ UNCHANGED notKey

NextKey == GetApiKeyCall

InitSpecKey == InitKey /\ InitSlugIdle /\ InitAllocIdle /\ InitExpandIdle /\ InitBatchIdle
    /\ InitCliIdle /\ InitRaceIdle /\ InitDirIdle /\ InitArgsIdle
    /\ InitPartsIdle /\ InitEditIdle /\ InitConcIdle
SpecKey == InitSpecKey /\ [][NextKey]_vars

\* the first value of a list that is set and not empty
FirstNonEmpty(values) ==
  values[CHOOSE i \in 1..Len(values) : Truthy(values[i]) /\ \A j \in 1..(i - 1) : ~Truthy(values[j])]
AnyNonEmpty(values) == \E i \in 1..Len(values) : Truthy(values[i])

\* C15 (as stated): the credential is the first non-empty value among
\* GEMINI_API_KEY, GOOGLE_API_KEY and the override variable, in that order
C15_Original ==
  kPc = "returned" =>
    kKey = FirstNonEmpty(<<kEnv.GEMINI_API_KEY, kEnv.GOOGLE_API_KEY,
                           kEnv.NANOBANANA_GEMINI_API_KEY>>)

\* C15 (amended): the credential is the first non-empty value among the
\* override variable NANOBANANA_GEMINI_API_KEY, GEMINI_API_KEY and
\* GOOGLE_API_KEY, in that order; getApiKey throws exactly when none is set
\* to a non-empty value
C15_Priority ==
  LET values == <<kEnv.NANOBANANA_GEMINI_API_KEY, kEnv.GEMINI_API_KEY, kEnv.GOOGLE_API_KEY>>
  IN /\ kPc = "returned" => (AnyNonEmpty(values) /\ kKey = FirstNonEmpty(values))
     /\ kPc = "threw" => ~AnyNonEmpty(values)

C15_Witness ==
  /\ kPc = "returned"
  /\ Truthy(kEnv.GEMINI_API_KEY)
  /\ Truthy(kEnv.GOOGLE_API_KEY)
  /\ Truthy(kEnv.NANOBANANA_GEMINI_API_KEY)
  /\ kEnv.GEMINI_API_KEY # kEnv.NANOBANANA_GEMINI_API_KEY
  /\ kKey = kEnv.NANOBANANA_GEMINI_API_KEY

----------------------------------------------------------------------------
(* The batch: files that are written stay *)

\* C16: no step of a generate or story batch deletes a file of the output
\* directory or changes its contents: a file written for an item is there,
\* as it was written, at every later step and when the batch ends
C16_FilesKept ==
  [][\A n \in DOMAIN bDir : n \in DOMAIN bDir' /\ bDir'[n] = bDir[n]]_vars

C16_Witness ==
  /\ bPc = "done"
  /\ Len(bOutcome) >= 3
  /\ bOutcome[1].result = "saved"
  /\ bDir[bOutcome[1].name] = [item |-> 1, whole |-> TRUE]
  /\ \E k \in 2..Len(bOutcome) : bOutcome[k].result = "apiError"
  /\ \E k \in 2..Len(bOutcome) : bOutcome[k].result = "writeError"
  /\ \E n \in DOMAIN bDir : ~bDir[n].whole

\* C20: with the preview on, a launch of the viewer, started or not, leaves
\* the list of files to return, the files on disk and the log as they are,
\* is made once per file (no retry) and never ends generate with an error
C20_LaunchSwallowed ==
  [][bPc = "preview" =>
       /\ bFiles' = bFiles
       /\ bDir' = bDir
       /\ bLog' = bLog
       /\ bJ' = bJ + 1
       /\ bPc' \in {"preview", "done"}
       /\ bPc' = "done" => bJ' = Len(bFiles)]_vars

C20_Witness ==
  /\ bPc = "done"
  /\ bReq.preview
  /\ bLaunchFailed
  /\ Len(bFiles) >= 2
  /\ bJ = Len(bFiles)
  /\ \A k \in 1..Len(bLog) : bLog[k].level = "log"
  /\ \A k \in 1..Len(bFiles) : bFiles[k] \in DOMAIN bDir /\ bDir[bFiles[k]].whole

----------------------------------------------------------------------------
(* SpecRace: two processes, each running genFilename and saveImage on the   *)
(* same output directory; every existsSync and every writeFile is a step    *)

Procs == {1, 2}
\* "a" and "A!" have the slug "a"
RacePrompts == {<<"a">>, <<"A","!">>, <<"B">>}
\* the directory holds, for each name, the process that wrote the file (0: a
\* file that was there before)
RaceDirs ==
  {<<>>, [n \in {PlainName(<<"a">>)} |-> 0],
   [n \in {PlainName(<<"a">>), NumberedName(<<"a">>, 1)} |-> 0]}

InitRace ==
  /\ rDir \in RaceDirs
  /\ rPrompt \in [Procs -> RacePrompts]
  /\ rIdx \in [Procs -> {0, MaxOrd}]
  /\ rName = [p \in Procs |-> <<>>]
  /\ rC = [p \in Procs |-> 0]
  /\ rPc = [p \in Procs |-> "start"]
  /\ rClock = 0
  /\ rFreeAt = [p \in Procs |-> 0]
  /\ rWroteAt = [p \in Procs |-> 0]

\* (mutant) the existence check is missing
ExistsNever(name, dir) == FALSE

\* fs.existsSync(path.join(out, name))
Exists(name, dir) == name \in DOMAIN dir

\* genFilename, lines 49-52: base, first name, counter
RaceStart(p) ==
  /\ rPc[p] = "start"
  /\ rName' = [rName EXCEPT ![p] = PlainName(GenBase(rPrompt[p]))]
  /\ rC' = [rC EXCEPT ![p] = StartCounter(rIdx[p])]
  /\ rPc' = [rPc EXCEPT ![p] = "check"]
  /\ UNCHANGED <<rDir, rPrompt, rIdx, rClock, rFreeAt, rWroteAt>>
  /\ UNCHANGED notRace

\* one test of the while of genFilename, lines 53-56: the next name, or the
\* name is returned as free
RaceCheck(p) ==
  /\ rPc[p] = "check"
  /\ rClock' = rClock + 1
  /\ IF Exists(rName[p], rDir)
     THEN /\ rName' = [rName EXCEPT ![p] = NumberedName(GenBase(rPrompt[p]), rC[p])]
          /\ rC' = [rC EXCEPT ![p] = rC[p] + 1]
          /\ UNCHANGED <<rPc, rFreeAt>>
     ELSE /\ rPc' = [rPc EXCEPT ![p] = "write"]
          /\ rFreeAt' = [rFreeAt EXCEPT ![p] = rClock + 1]
          /\ UNCHANGED <<rName, rC>>
  /\ UNCHANGED <<rDir, rPrompt, rIdx, rWroteAt>>
  /\ UNCHANGED notRace

\* saveImage, lines 59-64: writeFile creates the file or replaces the file of
\* that name
RaceWrite(p) ==
  /\ rPc[p] = "write"
  /\ rClock' = rClock + 1
  /\ rDir' = WithFile(rDir, rName[p], p)
  /\ rWroteAt' = [rWroteAt EXCEPT ![p] = rClock + 1]
  /\ rPc' = [rPc EXCEPT ![p] = "done"]
  /\ UNCHANGED <<rPrompt, rIdx, rName, rC, rFreeAt>>
  /\ UNCHANGED notRace

NextRace == \E p \in Procs : RaceStart(p) \/ RaceCheck(p) \/ RaceWrite(p)

InitSpecRace == InitRace /\ InitSlugIdle /\ InitAllocIdle /\ InitExpandIdle /\ InitBatchIdle
    /\ InitCliIdle /\ InitKeyIdle /\ InitDirIdle /\ InitArgsIdle
    /\ InitPartsIdle /\ InitEditIdle /\ InitConcIdle
SpecRace == InitSpecRace /\ [][NextRace]_vars

\* process p holds a name: it found it free and writes or has written it
HoldsName(p) == rPc[p] \in {"write", "done"}

\* C17: two processes naming a file for the same slug in one directory can
\* hold the same name, and they do only when each finished its existence
\* check before the other wrote its file
C17_SameNameOnlyByRace ==
  \A p, q \in Procs :
    (p # q /\ HoldsName(p) /\ HoldsName(q) /\ rName[p] = rName[q])
      => (rPc[q] = "done" => rFreeAt[p] < rWroteAt[q])

\* both processes found the same name free and neither has written yet
C17_Witness ==
  /\ rPc[1] = "write"
  /\ rPc[2] = "write"
  /\ rName[1] = rName[2]
  /\ rPrompt[1] # rPrompt[2]
  /\ rName[1] \notin DOMAIN rDir

----------------------------------------------------------------------------
(* SpecDir: ensureOutputDir and the directory generate, edit and story      *)
(* write into. A path is the sequence of its segments; the file system maps *)
(* each existing path to "dir" or "file".                                    *)

OUTPUT_DIR == "nanobanana-output"
\* process.cwd()
CWD == <<"w">>

\* path.join(base, segment)
PathJoin(base, segment) == Append(base, segment)
Parent(path) == SubSeq(path, 1, Len(path) - 1)
\* the path and the directories above it
Prefixes(path) == {SubSeq(path, 1, k) : k \in 1..Len(path)}

\* fs.existsSync(path)
ExistsSync(path, fs) == path \in DOMAIN fs

\* (mutant) mkdirSync without { recursive: true } semantics: only the last
\* segment is created
MkdirPlain(fs, path) ==
  [q \in DOMAIN fs \cup {path} |-> IF q \in DOMAIN fs THEN fs[q] ELSE "dir"]

\* fs.mkdirSync(path, { recursive: true }): the path and every missing
\* directory above it
MkdirRecursive(fs, path) ==
  [q \in DOMAIN fs \cup Prefixes(path) |-> IF q \in DOMAIN fs THEN fs[q] ELSE "dir"]

\* mkdirSync throws when something above the path is not a directory (or
\* when the system refuses: ok is false)
MkdirThrows(fs, path, ok) ==
  ~ok \/ \E q \in Prefixes(path) : q \in DOMAIN fs /\ fs[q] # "dir"

\* ensureOutputDir(baseDir), lines 25-31: the file system after the call,
\* the path returned, and whether the call threw
EnsureOutputDir(baseDir, fs, ok) ==
  LET outputPath == PathJoin(IF baseDir = <<>> THEN CWD ELSE baseDir, OUTPUT_DIR)
  IN IF ExistsSync(outputPath, fs)
     THEN [fs |-> fs, ret |-> outputPath, threw |-> FALSE]
     ELSE IF MkdirThrows(fs, outputPath, ok)
     THEN [fs |-> fs, ret |-> <<>>, threw |-> TRUE]
     ELSE [fs |-> MkdirRecursive(fs, outputPath), ret |-> outputPath, threw |-> FALSE]

\* base directories ensureOutputDir is called with: none (the working
\* directory), a directory below it, and one two levels below it
EnsureBases == {<<>>, PathJoin(CWD, "t"), PathJoin(PathJoin(CWD, "t"), "u")}
\* opts.outputDir: not given, or a directory of the caller
OutputDirOptions == {<<>>, PathJoin(CWD, "o")}
\* what is on disk at the start: the working directory, and maybe the output
\* directory (or a file of its name), the caller's directory, the base t
InitialTrees ==
  {[q \in {CWD} \cup out \cup own \cup base |-> IF q \in asFile THEN "file" ELSE "dir"] :
     out \in SUBSET {PathJoin(CWD, OUTPUT_DIR)},
     own \in SUBSET {PathJoin(CWD, "o")},
     base \in SUBSET {PathJoin(CWD, "t")},
     asFile \in SUBSET {PathJoin(CWD, OUTPUT_DIR)}}
\* the names genFilename gives the files of one operation
SaveNames == <<"a.png", "a_1.png", "a_2.png", "a_3.png">>

InitDir ==
  /\ dFs \in InitialTrees
  /\ dOpt \in OutputDirOptions
  /\ dOut = <<>>
  /\ dPc = "idle"
  /\ dCalls = 0
  /\ dBase = <<>>
  /\ dRet = <<>>
  /\ dThrew = FALSE
  /\ dSaved = 0
  /\ dWritten = {}
  /\ dCreated = {}

\* a direct call ensureOutputDir(base), as the unit tests make
EnsureCall(base, ok) ==
  /\ dPc = "idle"
  /\ dCalls < MaxEnsure
  /\ LET r == EnsureOutputDir(base, dFs, ok)
     IN /\ dFs' = r.fs
        /\ dRet' = r.ret
        /\ dThrew' = r.threw
        /\ dCreated' = dCreated \cup (DOMAIN r.fs \ DOMAIN dFs)
  /\ dCalls' = dCalls + 1
  /\ dBase' = base
  /\ UNCHANGED <<dOpt, dOut, dPc, dSaved, dWritten>>
  /\ UNCHANGED notDir

\* generate line 107 (edit 164, story 200):
\* const outputDir = opts.outputDir || ensureOutputDir()
OpStart(ok) ==
  /\ dPc = "idle"
  /\ IF dOpt # <<>>
     THEN /\ dOut' = dOpt
          /\ dPc' = "ready"
          /\ UNCHANGED <<dFs, dCreated>>
     ELSE LET r == EnsureOutputDir(<<>>, dFs, ok)
          IN /\ dFs' = r.fs
             /\ dOut' = r.ret
             /\ dPc' = IF r.threw THEN "threw" ELSE "ready"
             /\ dCreated' = dCreated \cup (DOMAIN r.fs \ DOMAIN dFs)
  /\ UNCHANGED <<dOpt, dCalls, dBase, dRet, dThrew, dSaved, dWritten>>
  /\ UNCHANGED notDir

\* saveImage(b64, filename, outputDir), lines 59-64: writeFile creates the
\* file when outputDir is a directory and the write goes through; it rejects
\* otherwise, and the caller catches and logs that
OpSave(ok) ==
  /\ dPc = "ready"
  /\ dSaved < Min(MaxSaves, Len(SaveNames))
  /\ dSaved' = dSaved + 1
  /\ LET full == PathJoin(dOut, SaveNames[dSaved + 1])
     IN IF ok /\ ExistsSync(dOut, dFs) /\ dFs[dOut] = "dir"
        THEN /\ dFs' = [q \in DOMAIN dFs \cup {full} |-> IF q = full THEN "file" ELSE dFs[q]]
             /\ dWritten' = dWritten \cup {full}
        ELSE UNCHANGED <<dFs, dWritten>>
  /\ UNCHANGED <<dOpt, dOut, dPc, dCalls, dBase, dRet, dThrew, dCreated>>
  /\ UNCHANGED notDir

\* the operation returns
OpEnd ==
  /\ dPc = "ready"
  /\ dPc' = "done"
  /\ UNCHANGED <<dFs, dOpt, dOut, dCalls, dBase, dRet, dThrew, dSaved, dWritten, dCreated>>
  /\ UNCHANGED notDir

NextDir ==
  \/ \E base \in EnsureBases, ok \in BOOLEAN : EnsureCall(base, ok)
  \/ \E ok \in BOOLEAN : OpStart(ok)
  \/ \E ok \in BOOLEAN : OpSave(ok)
  \/ OpEnd

InitSpecDir == InitDir /\ InitSlugIdle /\ InitAllocIdle /\ InitExpandIdle /\ InitBatchIdle
    /\ InitCliIdle /\ InitKeyIdle /\ InitRaceIdle /\ InitArgsIdle
    /\ InitPartsIdle /\ InitEditIdle /\ InitConcIdle
SpecDir == InitSpecDir /\ [][NextDir]_vars

\* C18 (as stated): once the operation has its output directory, before any
\* file is written, that directory exists
C18_Original ==
  dPc = "ready" => ExistsSync(dOut, dFs)

\* the path a call of ensureOutputDir with the given base is about
OutputPathOf(base) == PathJoin(IF base = <<>> THEN CWD ELSE base, OUTPUT_DIR)

\* C18 (amended): a file is only ever written into an existing directory;
\* without an outputDir option the operation writes into
\* <cwd>/nanobanana-output, which exists before the first write; a call of
\* ensureOutputDir that does not throw returns <base>/nanobanana-output,
\* which then exists together with every directory above it, and a call on
\* a path that exists changes nothing, throws nothing and returns that path
C18_DirectoryEnsured ==
  /\ [](/\ \A f \in dWritten : f \in DOMAIN dFs /\ dFs[Parent(f)] = "dir"
        /\ (dPc \in {"ready", "done"} /\ dOpt = <<>>)
             => (dOut = OutputPathOf(<<>>) /\ \A q \in Prefixes(dOut) : ExistsSync(q, dFs)))
  /\ [][dCalls' = dCalls + 1 =>
          /\ ~dThrew' => /\ dRet' = OutputPathOf(dBase')
                         /\ \A q \in Prefixes(dRet') : ExistsSync(q, dFs')
          /\ ExistsSync(OutputPathOf(dBase'), dFs)
               => (~dThrew' /\ dFs' = dFs /\ dRet' = OutputPathOf(dBase'))
          /\ \A q \in DOMAIN dFs : q \in DOMAIN dFs' /\ dFs'[q] = dFs[q]]_vars

C18_Witness ==
  /\ dPc = "done"
  /\ dOpt = <<>>
  /\ OutputPathOf(<<>>) \in dCreated
  /\ \E f \in dWritten : Parent(f) = OutputPathOf(<<>>)
  /\ dCalls = MaxEnsure
  /\ Len(dBase) > Len(CWD) + 1
  /\ dBase \in dCreated
  /\ Parent(dBase) \in dCreated
  /\ dRet = OutputPathOf(dBase)
  /\ ~dThrew

----------------------------------------------------------------------------
(* SpecArgs: parseArgs on an argument list, one loop iteration per step *)

\* arguments: a word, flags with and without a value, a value with "=" in
\* it, an empty value, a lone dash, a double dash, a dash and two letters
ArgTokens ==
  {<<"c","a","t">>, <<"-","p">>, <<"-","-","k">>, <<"-","-","k","=","v">>, <<"-","-","k","=">>, <<"-","-","k","=","a","=","b">>, <<"-">>, <<"-","-">>, <<"-","a","b">>}

InitArgs ==
  /\ vArgs \in SeqsUpTo(ArgTokens, MaxArgv)
  /\ vI = 0
  /\ vAcc = NoArgs
  /\ vPc = "loop"

\* for (const a of args) { ... }, lines 80-89: one argument
ParseStep ==
  /\ vPc = "loop"
  /\ vI < Len(vArgs)
  /\ vAcc' = ParseArg(vAcc, vArgs[vI + 1])
  /\ vI' = vI + 1
  /\ UNCHANGED <<vArgs, vPc>>
  /\ UNCHANGED notArgs

\* return { pos, flags }, line 90
ParseReturn ==
  /\ vPc = "loop"
  /\ vI >= Len(vArgs)
  /\ vPc' = "returned"
  /\ UNCHANGED <<vArgs, vI, vAcc>>
  /\ UNCHANGED notArgs

NextArgs == ParseStep \/ ParseReturn

InitSpecArgs == InitArgs /\ InitSlugIdle /\ InitAllocIdle /\ InitExpandIdle /\ InitBatchIdle
    /\ InitCliIdle /\ InitKeyIdle /\ InitRaceIdle /\ InitDirIdle
    /\ InitPartsIdle /\ InitEditIdle /\ InitConcIdle
SpecArgs == InitSpecArgs /\ [][NextArgs]_vars

\* the claim's reading of one argument: "--k=v" names k and v around its
\* first "=", "--k" names k, "-x" names x
IsLongFlag(a) == StartsWith(a, <<DASH, DASH>>)
IsShortFlag(a) == ~IsLongFlag(a) /\ StartsWith(a, <<DASH>>) /\ Len(a) = 2
HasEquals(a) == \E i \in 1..Len(a) : a[i] = EQUALS
FirstEquals(a) == CHOOSE i \in 1..Len(a) : a[i] = EQUALS /\ \A j \in 1..(i - 1) : a[j] # EQUALS
ClaimedKey(a) ==
  IF IsShortFlag(a) THEN <<a[2]>>
  ELSE IF HasEquals(a) THEN SubSeq(a, 3, FirstEquals(a) - 1)
  ELSE Drop(a, 2)
ClaimedValue(a) ==
  IF IsLongFlag(a) /\ HasEquals(a) THEN Drop(a, FirstEquals(a)) ELSE TRUE_STR
IsFlagArg(a) == IsLongFlag(a) \/ IsShortFlag(a)

\* C23: parseArgs returns the non-flag arguments in input order as the
\* positional list, and for every flag argument the flag it names holds
\* exactly the value it gives ("true" for "--k" and "-x"), the last argument
\* naming a flag deciding; nothing else is a flag
C23_Original ==
  vPc = "returned" =>
    /\ vAcc.pos = SelectSeq(vArgs, LAMBDA a : ~IsFlagArg(a))
    /\ DOMAIN vAcc.flags = {ClaimedKey(vArgs[i]) : i \in {j \in 1..Len(vArgs) : IsFlagArg(vArgs[j])}}
    /\ \A i \in 1..Len(vArgs) :
         (IsFlagArg(vArgs[i])
            /\ \A j \in (i + 1)..Len(vArgs) :
                 ~(IsFlagArg(vArgs[j]) /\ ClaimedKey(vArgs[j]) = ClaimedKey(vArgs[i])))
           => vAcc.flags[ClaimedKey(vArgs[i])] = ClaimedValue(vArgs[i])

----------------------------------------------------------------------------
(* SpecParts: one prompt of generate, lines 127-139: the response's first
   candidate is scanned part by part *)

\* d.length > 1000
BASE64_MIN == 1000

\* [A-Za-z0-9+/]
Base64Chars ==
  LET s == <<"A","B","C","D","E","F","G","H","I","J","K","L","M","N","O","P","Q","R","S","T","U","V","W","X","Y","Z","a","b","c","d","e","f","g","h","i","j","k","l","m","n","o","p","q","r","s","t","u","v","w","x","y","z","0","1","2","3","4","5","6","7","8","9","+","/">>
  IN {s[i] : i \in DOMAIN s}

\* /^[A-Za-z0-9+/]*={0,2}$/.test(d): the longest run of alphabet characters
\* from the start, then nothing but at most two "="
Base64Shape(d) ==
  LET bad == {i \in 1..Len(d) : d[i] \notin Base64Chars}
      run == IF bad = {} THEN Len(d)
             ELSE (CHOOSE i \in bad : \A j \in bad : i <= j) - 1
      rest == Drop(d, run)
  IN rest \in {<<>>, <<"=">>, <<"=", "=">>}

\* (mutant) the length is not looked at
IsBase64AnyLength(d) == Truthy(d) /\ Base64Shape(d)

\* !!d && d.length > 1000 && /^[A-Za-z0-9+/]*={0,2}$/.test(d)
IsBase64(d) == Truthy(d) /\ Len(d) > BASE64_MIN /\ Base64Shape(d)

\* part.inlineData?.data || (part.text && isBase64(part.text) ? part.text : null)
PartB64(part) ==
  IF Truthy(part.data) THEN part.data
  ELSE IF Truthy(part.text) /\ IsBase64(part.text) THEN part.text
  ELSE Undefined

\* res.candidates?.[0]?.content?.parts || []
ResParts(res) ==
  IF res = <<>> \/ ~res[1].content THEN <<>> ELSE res[1].parts

\* image bytes as the API encodes them, and texts around the length limit
IMG == <<"i","V","B","O">>
LongText(n, tail) == Repeat(<<"A","z","0","9","+","/">>, n) \o tail
PartTexts ==
  {Undefined, <<"h","i">>,
   LongText(BASE64_MIN, <<>>), LongText(BASE64_MIN + 1, <<>>),
   LongText(BASE64_MIN - 1, <<"=","=">>), LongText(BASE64_MIN - 2, <<"=","=","=">>),
   LongText(BASE64_MIN - 1, <<"=","A">>), LongText(BASE64_MIN, <<"!">>)}
PartValues ==
  {[data |-> Undefined, text |-> t] : t \in PartTexts}
    \cup {[data |-> d, text |-> Undefined] : d \in {<<>>, IMG}}
    \cup {[data |-> d, text |-> LongText(BASE64_MIN + 1, <<>>)] : d \in {<<>>, IMG}}
    \cup {[data |-> <<>>, text |-> <<"h","i">>]}

\* responses: no candidate, a candidate without content, one candidate, and
\* a second candidate that carries an image
Candidate(ps) == [content |-> TRUE, parts |-> ps]
PartResponses ==
  {<<>>, <<[content |-> FALSE, parts |-> <<>>]>>}
    \cup {<<Candidate(ps)>> : ps \in SeqsUpTo(PartValues, MaxScan)}
    \cup {<<Candidate(ps), Candidate(<<[data |-> IMG, text |-> Undefined]>>)>> :
            ps \in SeqsUpTo(PartValues, MaxScan)}

PartPrompt == <<"c","a","t">>
PartDirs == {<<>>, WithFile(<<>>, PlainName(PartPrompt), <<"o","l","d">>)}

InitParts ==
  /\ pRes \in PartResponses
  /\ pDir0 \in PartDirs
  /\ pDir = pDir0
  /\ pK = 0
  /\ pPc = "call"
  /\ pB64 = Undefined
  /\ pName = <<>>
  /\ pFiles = <<>>
  /\ pWrites = 0

\* const res = await ai.models.generateContent(...): resolves, or rejects
\* into the catch of line 138
PartsCall(ok) ==
  /\ pPc = "call"
  /\ pPc' = IF ok THEN "scan" ELSE "done"
  /\ pK' = IF ok THEN 1 ELSE pK
  /\ UNCHANGED <<pRes, pDir0, pDir, pB64, pName, pFiles, pWrites>>
  /\ UNCHANGED notParts

\* one iteration of for (const part of ...): if (b64) { genFilename; saveImage }
ScanPart ==
  /\ pPc = "scan"
  /\ pK <= Len(ResParts(pRes))
  /\ LET b64 == PartB64(ResParts(pRes)[pK])
     IN IF Truthy(b64)
        THEN /\ pB64' = b64
             /\ pName' = GenFilename(PartPrompt, 0, DOMAIN pDir)
             /\ pPc' = "save"
             /\ pK' = pK
        ELSE /\ pK' = pK + 1
             /\ UNCHANGED <<pB64, pName, pPc>>
  /\ UNCHANGED <<pRes, pDir0, pDir, pFiles, pWrites>>
  /\ UNCHANGED notParts

\* the parts are exhausted: nothing is saved for this prompt
ScanEnd ==
  /\ pPc = "scan"
  /\ pK > Len(ResParts(pRes))
  /\ pPc' = "done"
  /\ UNCHANGED <<pRes, pDir0, pDir, pK, pB64, pName, pFiles, pWrites>>
  /\ UNCHANGED notParts

\* await saveImage(...) resolves: files.push(f); break. Or writeFile rejects
\* and the catch of line 138 ends the iteration
SavePart(ok) ==
  /\ pPc = "save"
  /\ pPc' = "done"
  /\ IF ok
     THEN /\ pDir' = WithFile(pDir, pName, pB64)
          /\ pFiles' = Append(pFiles, pName)
          /\ pWrites' = pWrites + 1
     ELSE UNCHANGED <<pDir, pFiles, pWrites>>
  /\ UNCHANGED <<pRes, pDir0, pK, pB64, pName>>
  /\ UNCHANGED notParts

NextParts ==
  \/ \E ok \in BOOLEAN : PartsCall(ok)
  \/ ScanPart
  \/ ScanEnd
  \/ \E ok \in BOOLEAN : SavePart(ok)

InitSpecParts == InitParts /\ InitSlugIdle /\ InitAllocIdle /\ InitExpandIdle /\ InitBatchIdle
    /\ InitCliIdle /\ InitKeyIdle /\ InitRaceIdle /\ InitDirIdle
    /\ InitArgsIdle /\ InitEditIdle /\ InitConcIdle
SpecParts == InitSpecParts /\ [][NextParts]_vars

\* the claim's description of a part that is saved
ImageText(t) ==
  /\ t # Undefined
  /\ Len(t) > 1000
  /\ \E k \in 0..2 :
       /\ k <= Len(t)
       /\ \A i \in 1..(Len(t) - k) : t[i] \in Base64Chars
       /\ \A i \in (Len(t) - k + 1)..Len(t) : t[i] = "="
ImagePart(part) == (part.data # Undefined /\ part.data # <<>>) \/ ImageText(part.text)
ImageOf(part) == IF part.data # Undefined /\ part.data # <<>> THEN part.data ELSE part.text
FirstCandidate == IF pRes # <<>> /\ pRes[1].content THEN pRes[1].parts ELSE <<>>
NewFiles == {n \in DOMAIN pDir : n \notin DOMAIN pDir0 \/ pDir[n] # pDir0[n]}

\* C22: for a prompt at most one file is written; a file that is written
\* holds the data of the first part of the first candidate that has image
\* data or a text longer than 1000 characters of [A-Za-z0-9+/] followed by
\* at most two "="; once that part's save has succeeded the later parts are
\* not looked at, and when the first candidate has no such part (or there is
\* no candidate) nothing is written
C22_FirstImagePart ==
  /\ pWrites <= 1 /\ Len(pFiles) <= 1 /\ Cardinality(NewFiles) <= 1
  /\ \A n \in DOMAIN pDir0 : n \in DOMAIN pDir /\ pDir[n] = pDir0[n]
  /\ NewFiles # {} =>
       /\ NewFiles = {pFiles[1]}
       /\ \E k \in 1..Len(FirstCandidate) :
            /\ ImagePart(FirstCandidate[k])
            /\ \A j \in 1..(k - 1) : ~ImagePart(FirstCandidate[j])
            /\ pDir[pFiles[1]] = ImageOf(FirstCandidate[k])
            /\ pK = k
  /\ (\A k \in 1..Len(FirstCandidate) : ~ImagePart(FirstCandidate[k])) =>
       NewFiles = {} /\ pFiles = <<>> /\ pPc # "save"
  /\ (pPc = "scan" /\ pK <= Len(FirstCandidate)) =>
       \A j \in 1..(pK - 1) : ~ImagePart(FirstCandidate[j])

\* a second part with image data is left alone after the first was saved,
\* next to an earlier file of the same name
C22_Witness ==
  /\ pPc = "done" /\ pWrites = 1
  /\ Len(FirstCandidate) = 2
  /\ FirstCandidate[1].data = Undefined /\ ImageText(FirstCandidate[1].text)
  /\ ImagePart(FirstCandidate[2])
  /\ pDir0 # <<>>

----------------------------------------------------------------------------
(* SpecEdit: one call of edit (mode "restore": restore), lines 153-183. The
   file system maps a file, a directory and a name in it, to its contents *)

\* the directories of the search, a directory outside it, and one that does
\* not exist; each with its absolute path
PlacePath ==
  [cwd |-> <<"/","w">>, output |-> <<"/","w","/","n","a","n","o","b","a","n","a","n","a","-","o","u","t","p","u","t">>, downloads |-> <<"/","h","/","D","o","w","n","l","o","a","d","s">>,
   desktop |-> <<"/","h","/","D","e","s","k","t","o","p">>, test |-> <<"/","t">>, missing |-> <<"/","m">>]
\* path.join(dir, name)
PathOf(f) == PlacePath[f.at] \o <<"/">> \o f.name

\* what fs.existsSync answers for: every file under its place and name, and
\* under its absolute path
FilesSeen(fs) == DOMAIN fs \cup {[at |-> "root", name |-> PathOf(f)] : f \in DOMAIN fs}
\* the file a path found by findFile names
FileAt(found, fs) ==
  IF found.at = "root" THEN CHOOSE f \in DOMAIN fs : PathOf(f) = found.name ELSE found

\* (mutant) existsSync answers false for every name
NamesInNone(out, fs) == {}

\* the names fs.existsSync(path.join(out, name)) answers true for
NamesIn(out, fs) == {f.name : f \in {g \in DOMAIN fs : g.at = out}}

\* `${opts.mode || "edit"}_${prompt}`
EditSlugPrompt(mode, prompt) == OrElse(mode, <<"e","d","i","t">>) \o <<"_">> \o prompt

EditPrompt == <<"c","a","t">>
EditFilesAll ==
  {[at |-> "cwd", name |-> <<"x",".","p","n","g">>], [at |-> "cwd", name |-> <<"e","d","i","t","c","a","t",".","p","n","g">>],
   [at |-> "output", name |-> <<"e","d","i","t","c","a","t",".","p","n","g">>], [at |-> "output", name |-> <<"e","d","i","t","c","a","t","_","1",".","p","n","g">>],
   [at |-> "output", name |-> <<"r","e","s","t","o","r","e","c","a","t",".","p","n","g">>],
   [at |-> "test", name |-> <<"e","d","i","t","c","a","t",".","p","n","g">>], [at |-> "test", name |-> <<"x",".","p","n","g">>]}
EditTrees ==
  {[f \in S |-> "old"] : S \in {T \in SUBSET EditFilesAll : Cardinality(T) <= MaxPresent}}
\* the file argument: a name, or an absolute path
EditFileArgs ==
  {<<"x",".","p","n","g">>, <<"e","d","i","t","c","a","t",".","p","n","g">>, <<"e","d","i","t","c","a","t","_","1",".","p","n","g">>,
   PathOf([at |-> "output", name |-> <<"r","e","s","t","o","r","e","c","a","t",".","p","n","g">>]),
   PathOf([at |-> "test", name |-> <<"e","d","i","t","c","a","t",".","p","n","g">>])}
\* opts.outputDir: not passed, or a directory
EditOutputDirs == {"none", "cwd", "test", "missing"}
EditModes == {Undefined, <<"r","e","s","t","o","r","e">>}

InitEdit ==
  /\ xFile \in EditFileArgs
  /\ xMode \in EditModes
  /\ xOpt \in EditOutputDirs
  /\ xFs0 \in EditTrees
  /\ xFs = xFs0
  /\ xFp = NoFile
  /\ xOut = "none"
  /\ xName = <<>>
  /\ xRet = <<>>
  /\ xPc = "find"

\* const fp = findFile(file); if (!fp) throw
EditFind ==
  /\ xPc = "find"
  /\ LET found == FindFile(xFile, FilesSeen(xFs))
     IN IF found = NoFile
        THEN xPc' = "threw" /\ UNCHANGED xFp
        ELSE xPc' = "read" /\ xFp' = FileAt(found, xFs)
  /\ UNCHANGED <<xFile, xMode, xOpt, xFs0, xFs, xOut, xName, xRet>>
  /\ UNCHANGED notEdit

\* getApiKey() and await fs.promises.readFile(fp): either throws out of edit
EditRead(ok) ==
  /\ xPc = "read"
  /\ xPc' = IF ok THEN "ensure" ELSE "threw"
  /\ UNCHANGED <<xFile, xMode, xOpt, xFs0, xFs, xFp, xOut, xName, xRet>>
  /\ UNCHANGED notEdit

\* const outputDir = opts.outputDir || ensureOutputDir(): mkdirSync throws
\* out of edit
EditEnsure(ok) ==
  /\ xPc = "ensure"
  /\ IF xOpt # "none" THEN xOut' = xOpt /\ xPc' = "call"
     ELSE IF ok \/ NamesIn("output", xFs) # {} THEN xOut' = "output" /\ xPc' = "call"
     ELSE xPc' = "threw" /\ UNCHANGED xOut
  /\ UNCHANGED <<xFile, xMode, xOpt, xFs0, xFs, xFp, xName, xRet>>
  /\ UNCHANGED notEdit

\* await generateContent and the scan of the parts: a rejection is caught,
\* a response without image returns []; else genFilename picks the name
EditCall(ok, image) ==
  /\ xPc = "call"
  /\ IF ok /\ image
     THEN /\ xName' = GenFilename(EditSlugPrompt(xMode, EditPrompt), 0, NamesIn(xOut, xFs))
          /\ xPc' = "save"
     ELSE xPc' = "returned" /\ UNCHANGED xName
  /\ UNCHANGED <<xFile, xMode, xOpt, xFs0, xFs, xFp, xOut, xRet>>
  /\ UNCHANGED notEdit

\* await saveImage(b64, filename, outputDir); return [f]. writeFile rejects
\* (always when the directory is missing): caught, return []
EditSave(ok) ==
  /\ xPc = "save"
  /\ xPc' = "returned"
  /\ IF ok /\ xOut # "missing"
     THEN /\ xFs' = [f \in DOMAIN xFs \cup {[at |-> xOut, name |-> xName]} |->
                       IF f = [at |-> xOut, name |-> xName] THEN "new" ELSE xFs[f]]
          /\ xRet' = <<[at |-> xOut, name |-> xName]>>
     ELSE UNCHANGED <<xFs, xRet>>
  /\ UNCHANGED <<xFile, xMode, xOpt, xFs0, xFp, xOut, xName>>
  /\ UNCHANGED notEdit

NextEdit ==
  \/ EditFind
  \/ \E ok \in BOOLEAN : EditRead(ok)
  \/ \E ok \in BOOLEAN : EditEnsure(ok)
  \/ \E ok, image \in BOOLEAN : EditCall(ok, image)
  \/ \E ok \in BOOLEAN : EditSave(ok)

InitSpecEdit == InitEdit /\ InitSlugIdle /\ InitAllocIdle /\ InitExpandIdle /\ InitBatchIdle
    /\ InitCliIdle /\ InitKeyIdle /\ InitRaceIdle /\ InitDirIdle
    /\ InitArgsIdle /\ InitPartsIdle /\ InitConcIdle
SpecEdit == InitSpecEdit /\ [][NextEdit]_vars

\* C21: when edit or restore returns a path, that path is not the path of
\* the input file, and at every moment the input file exists with the
\* contents it had when edit was called (edit never writes to it), also
\* when the input file lies in the directory the output is written to
C21_InputKept ==
  /\ xFp # NoFile => xFp \in DOMAIN xFs /\ xFs[xFp] = xFs0[xFp]
  /\ xRet # <<>> => PathOf(xRet[1]) # PathOf(xFp) /\ xRet[1] # xFp

\* an edit of a file of the output directory that carries the very name the
\* edit would be saved under has returned its new file
C21_Witness ==
  /\ xPc = "returned" /\ xRet # <<>>
  /\ xFp.at = xOut
  /\ xFp.name = PlainName(GenBase(EditSlugPrompt(xMode, EditPrompt)))

----------------------------------------------------------------------------
(* SpecConc: two generate operations started together in one process
   (Promise.all) on one output directory. An action is what runs on the
   event loop between two awaits: no other operation's code runs inside it,
   any operation's code can run between two of them *)

Ops == {1, 2}
ConcPromptValues == {<<"a">>, <<"A","!">>, <<"b">>}
ConcPrompts == {ps \in SeqsUpTo(ConcPromptValues, MaxItems) : ps # <<>>}
\* the directory holds, per name, the item whose image the file carries
OLD_FILE == [op |-> 0, i |-> 0]
ConcDirs == {<<>>, WithFile(<<>>, PlainName(<<"a">>), OLD_FILE)}

InitConc ==
  /\ nPrompts \in [Ops -> ConcPrompts]
  /\ nDir \in ConcDirs
  /\ nI = [o \in Ops |-> 0]
  /\ nPc = [o \in Ops |-> "start"]
  /\ nName = [o \in Ops |-> <<>>]
  /\ nFiles = [o \in Ops |-> <<>>]
  /\ nSaved = {}

\* after item nI[o]: the next iteration issues its call, or generate returns
AfterItem(o) == IF nI[o] + 1 < Len(nPrompts[o]) THEN "await" ELSE "returned"

\* generate up to its first await: the call for prompts[0] is issued
ConcStart(o) ==
  /\ nPc[o] = "start"
  /\ nPc' = [nPc EXCEPT ![o] = "await"]
  /\ UNCHANGED <<nPrompts, nDir, nI, nName, nFiles, nSaved>>
  /\ UNCHANGED notConc

\* the response arrives: with an image, genFilename picks the name against
\* the directory as it is now and saveImage hands the write to
\* fs.promises.writeFile; without (or on a rejection) the loop goes on
ConcResponse(o, image) ==
  /\ nPc[o] = "await"
  /\ IF image
     THEN /\ nName' = [nName EXCEPT ![o] = GenFilename(nPrompts[o][nI[o] + 1], nI[o], DOMAIN nDir)]
          /\ nPc' = [nPc EXCEPT ![o] = "writing"]
          /\ UNCHANGED nI
     ELSE /\ nPc' = [nPc EXCEPT ![o] = AfterItem(o)]
          /\ nI' = [nI EXCEPT ![o] = nI[o] + 1]
          /\ UNCHANGED nName
  /\ UNCHANGED <<nPrompts, nDir, nFiles, nSaved>>
  /\ UNCHANGED notConc

\* writeFile creates (or truncates) the file and resolves: files.push(f);
\* or it rejects into the catch. Then the next iteration or the return
ConcWritten(o, ok) ==
  /\ nPc[o] = "writing"
  /\ IF ok
     THEN /\ nDir' = WithFile(nDir, nName[o], [op |-> o, i |-> nI[o]])
          /\ nFiles' = [nFiles EXCEPT ![o] = Append(nFiles[o], nName[o])]
          /\ nSaved' = nSaved \cup {[op |-> o, i |-> nI[o], name |-> nName[o]]}
     ELSE UNCHANGED <<nDir, nFiles, nSaved>>
  /\ nPc' = [nPc EXCEPT ![o] = AfterItem(o)]
  /\ nI' = [nI EXCEPT ![o] = nI[o] + 1]
  /\ UNCHANGED <<nPrompts, nName>>
  /\ UNCHANGED notConc

NextConc ==
  \/ \E o \in Ops : ConcStart(o)
  \/ \E o \in Ops, image \in BOOLEAN : ConcResponse(o, image)
  \/ \E o \in Ops, ok \in BOOLEAN : ConcWritten(o, ok)

InitSpecConc == InitConc /\ InitSlugIdle /\ InitAllocIdle /\ InitExpandIdle /\ InitBatchIdle
    /\ InitCliIdle /\ InitKeyIdle /\ InitRaceIdle /\ InitDirIdle
    /\ InitArgsIdle /\ InitPartsIdle /\ InitEditIdle
SpecConc == InitSpecConc /\ [][NextConc]_vars

\* C24: of the items saved by the concurrent operations no two were saved
\* under the same filename, every saved item's file still carries that
\* item's image, and a file that was there before carries what it did
C24_Original ==
  /\ \A s, t \in nSaved : s.name = t.name => s = t
  /\ \A s \in nSaved : nDir[s.name] = [op |-> s.op, i |-> s.i]
  /\ \A n \in DOMAIN nDir : nDir[n] = OLD_FILE \/ \E s \in nSaved : s.name = n

====
